---------------------------- MODULE Spec2Model ----------------------------
(***************************************************************************)
(* The pose comparison engine of video-parser: PoseComparator              *)
(* (comparator/pose-comparator.ts) and its geometry and statistics         *)
(* helpers (pose-comparison.utils.ts), driven by a caller that holds two   *)
(* videos and a comparator.                                                *)
(*                                                                         *)
(* Numbers.  A JavaScript number is modelled as a fixed-point integer: a   *)
(* coordinate, distance, weight, visibility, angle (degrees) or score v    *)
(* is the integer v * Unit, and every division rounds toward zero, where   *)
(* IEEE-754 rounds to nearest.  Ratios that the code multiplies by 100     *)
(* afterwards (exp, cos, the timing ratio) are kept at the finer           *)
(* resolution Fine = Unit * Unit.  Landmark index i of the code is         *)
(* position i + 1 of a TLA+ sequence.                                      *)
(***************************************************************************)
EXTENDS Integers, Sequences, FiniteSets, TLC

\* Resolution of the fixed-point numbers: 1.0 is Unit.
Unit == 100
Fine == Unit * Unit

\* The decimal num/den as a number of the model.
Dec(num, den) == (num * Unit) \div den

----------------------------------------------------------------------------
(* Arithmetic of the JavaScript runtime.                                   *)

Abs(a) == IF a < 0 THEN -a ELSE a
Min(a, b) == IF a <= b THEN a ELSE b
Max(a, b) == IF a >= b THEN a ELSE b

\* a / b, rounded toward zero (sign-symmetric like IEEE division).
QDiv(a, b) ==
  IF (a < 0) = (b < 0) THEN Abs(a) \div Abs(b) ELSE -(Abs(a) \div Abs(b))

\* a / b at resolution Fine, for a and b of one resolution; the long
\* division keeps every intermediate product inside TLC's integers.
FineDiv(a, b) ==
  LET Digits(q) == q * Unit + QDiv((a * Unit - q * b) * Unit, b)
  IN Digits(QDiv(a * Unit, b))

\* Math.sqrt of a product of two numbers (resolution Unit * Unit): the
\* integer square root, a number of resolution Unit, by Newton's iteration
\* from a guess that is not below the root.
RECURSIVE SqrtNewton(_, _)
SqrtNewton(n, guess) ==
  LET Step(better) == IF better >= guess THEN guess
                      ELSE SqrtNewton(n, better)
  IN Step((guess + n \div guess) \div 2)
Sqrt(n) ==
  IF n = 0 THEN 0 ELSE SqrtNewton(n, (n \div Unit + Unit) \div 2 + 1)

\* The Taylor series of e^(-r), 0 <= r <= 1, at resolution Fine.
RECURSIVE ExpSeries(_, _, _, _)
ExpSeries(r, k, term, acc) ==
  IF term = 0 THEN acc
  ELSE ExpSeries(r, k + 1, -QDiv(term * r, k * Unit), acc + term)
RECURSIVE FinePow(_, _)
FinePow(b, n) == IF n = 0 THEN Fine ELSE QDiv(b * FinePow(b, n - 1), Fine)
ExpNeg(y) ==
  IF y >= 10 * Unit THEN 0 ELSE
  QDiv(FinePow(ExpSeries(Unit, 1, Fine, 0), y \div Unit)
         * ExpSeries(y % Unit, 1, Fine, 0), Fine)
\* Math.exp(x) at resolution Fine; a result beyond 1000 stands for a large
\* value (the callers clamp it).
Exp(x) ==
  IF x <= 0 THEN ExpNeg(-x)
  ELSE IF ExpNeg(x) = 0 THEN 1000 * Fine
  ELSE Min(1000 * Fine, QDiv(Fine * Fine, ExpNeg(x)))

\* Math.acos of a cosine c of 0..1 (resolution Fine), in radians
\* (resolution Fine): sqrt(1 - c) * (a0 + a1 c + a2 c^2 + a3 c^3), the
\* approximation 4.4.45 of Abramowitz and Stegun, off by less than 0.003
\* degrees.
AcosRadians(c) ==
  LET a0 == (157073 * Fine) \div 100000
      a1 == (21211 * Fine) \div 100000
      a2 == (7426 * Fine) \div 100000
      a3 == (1873 * Fine) \div 100000
      Polynomial(p2) == a0 - (c * (a1 - (c * p2) \div Fine)) \div Fine
  IN (Sqrt((Fine - c) * Fine) * Polynomial(a2 - (c * a3) \div Fine)) \div Fine
\* Radians (resolution Fine) as degrees (resolution Unit), to the nearest.
Degrees(radians) == (radians * 57296 + 500 * Unit) \div (1000 * Unit)
\* (Math.acos(c) * 180) / Math.PI: the angle in degrees whose cosine is c.
AcosDegrees(c) ==
  IF c >= Fine THEN 0
  ELSE IF c <= -Fine THEN 180 * Unit
  ELSE IF c < 0 THEN 180 * Unit - Degrees(AcosRadians(-c))
  ELSE Degrees(AcosRadians(c))

----------------------------------------------------------------------------
(* pose-comparison.types.ts                                                *)

\* A landmark without a visibility value (visibility?: number).
Undefined == -1

Landmark(x, y, z, visibility) ==
  [x |-> x, y |-> y, z |-> z, visibility |-> visibility]
Frame(landmarks, timestamp) == [landmarks |-> landmarks, timestamp |-> timestamp]
Video(frames) == [frames |-> frames]

\* landmarks[i] of the code.
At(landmarks, i) == landmarks[i + 1]

\* The default landmark weight table.
DefaultLandmarkWeights ==
  [i \in 0..32 |->
     IF i <= 10 THEN Dec(3, 10)
     ELSE IF i <= 16 THEN Dec(15, 10)
     ELSE IF i <= 22 THEN Dec(8, 10)
     ELSE IF i <= 24 THEN Dec(12, 10)
     ELSE Dec(18, 10)]

DEFAULT_COMPARATOR_CONFIG ==
  [normalization |-> [center |-> TRUE, scale |-> TRUE, rotation |-> FALSE],
   landmarkWeights |-> DefaultLandmarkWeights,
   positionWeight |-> Dec(6, 10),
   angularWeight |-> Dec(4, 10),
   visibilityThreshold |-> Dec(5, 10)]

----------------------------------------------------------------------------
(* pose-comparison.utils.ts                                                *)

calculateMidpoint(p1, p2) ==
  [x |-> QDiv(p1.x + p2.x, 2), y |-> QDiv(p1.y + p2.y, 2),
   z |-> QDiv(p1.z + p2.z, 2)]

calculateDistance(p1, p2) ==
  LET dx == p1.x - p2.x
      dy == p1.y - p2.y
      dz == p1.z - p2.z
  IN Sqrt(dx * dx + dy * dy + dz * dz)

\* translateLandmarks leaving the depth of every landmark as it was.
translateLandmarksXY(landmarks, offset) ==
  [i \in DOMAIN landmarks |->
     [landmarks[i] EXCEPT !.x = @ - offset.x, !.y = @ - offset.y]]

\* translateLandmarks building each landmark from its coordinates alone.
translateLandmarksBare(landmarks, offset) ==
  [i \in DOMAIN landmarks |->
     Landmark(landmarks[i].x - offset.x, landmarks[i].y - offset.y,
              landmarks[i].z - offset.z, Undefined)]

translateLandmarks(landmarks, offset) ==
  [i \in DOMAIN landmarks |->
     [landmarks[i] EXCEPT !.x = @ - offset.x, !.y = @ - offset.y,
                          !.z = @ - offset.z]]

\* scaleLandmarks leaving the depth of every landmark as it was.
scaleLandmarksXY(landmarks, factor) ==
  IF factor = 0 THEN landmarks
  ELSE [i \in DOMAIN landmarks |->
          [landmarks[i] EXCEPT !.x = QDiv(@ * Unit, factor),
                               !.y = QDiv(@ * Unit, factor)]]

\* scaleLandmarks multiplying every coordinate by the factor.
scaleLandmarksMultiplied(landmarks, factor) ==
  IF factor = 0 THEN landmarks
  ELSE [i \in DOMAIN landmarks |->
          [landmarks[i] EXCEPT !.x = QDiv(@ * factor, Unit),
                               !.y = QDiv(@ * factor, Unit),
                               !.z = QDiv(@ * factor, Unit)]]

scaleLandmarks(landmarks, factor) ==
  IF factor = 0 THEN landmarks
  ELSE [i \in DOMAIN landmarks |->
          [landmarks[i] EXCEPT !.x = QDiv(@ * Unit, factor),
                               !.y = QDiv(@ * Unit, factor),
                               !.z = QDiv(@ * Unit, factor)]]

\* rotateLandmarksY with cos = Math.cos(angle) and sin = Math.sin(angle)
\* (resolution Fine) already taken.
rotateLandmarksY(landmarks, cos, sin) ==
  [i \in DOMAIN landmarks |->
     [landmarks[i] EXCEPT
        !.x = QDiv(landmarks[i].x * cos - landmarks[i].z * sin, Fine),
        !.z = QDiv(landmarks[i].x * sin + landmarks[i].z * cos, Fine)]]

calculateJointAngle(point1, point2, point3) ==
  LET v1 == [x |-> point1.x - point2.x, y |-> point1.y - point2.y,
             z |-> point1.z - point2.z]
      v2 == [x |-> point3.x - point2.x, y |-> point3.y - point2.y,
             z |-> point3.z - point2.z]
      dotProduct == v1.x * v2.x + v1.y * v2.y + v1.z * v2.z
      Angle(mag1, mag2) ==
        IF mag1 = 0 \/ mag2 = 0 THEN 0
        ELSE LET cosAngle == FineDiv(dotProduct, mag1 * mag2)
                 clampedCosAngle == Max(-Fine, Min(Fine, cosAngle))
             IN AcosDegrees(clampedCosAngle)
  IN Angle(Sqrt(v1.x * v1.x + v1.y * v1.y + v1.z * v1.z),
           Sqrt(v2.x * v2.x + v2.y * v2.y + v2.z * v2.z))

RECURSIVE SumSeq(_, _)
SumSeq(values, i) == IF i = 0 THEN 0 ELSE values[i] + SumSeq(values, i - 1)
RECURSIVE MinSeq(_, _)
MinSeq(values, i) ==
  IF i = 1 THEN values[1] ELSE Min(values[i], MinSeq(values, i - 1))
RECURSIVE MaxSeq(_, _)
MaxSeq(values, i) ==
  IF i = 1 THEN values[1] ELSE Max(values[i], MaxSeq(values, i - 1))

\* calculateStatistics with the sample variance (divisor n - 1).
calculateStatisticsSample(values) ==
  IF Len(values) = 0
  THEN [mean |-> 0, min |-> 0, max |-> 0, variance |-> 0]
  ELSE LET Statistics(mean) ==
             LET squares == [i \in DOMAIN values |->
                               QDiv((values[i] - mean) * (values[i] - mean),
                                    Unit)]
             IN [mean |-> mean,
                 min |-> MinSeq(values, Len(values)),
                 max |-> MaxSeq(values, Len(values)),
                 variance |-> IF Len(values) = 1 THEN 0
                              ELSE QDiv(SumSeq(squares, Len(values)),
                                        Len(values) - 1)]
       IN Statistics(QDiv(SumSeq(values, Len(values)), Len(values)))

calculateStatistics(values) ==
  IF Len(values) = 0
  THEN [mean |-> 0, min |-> 0, max |-> 0, variance |-> 0]
  ELSE LET Statistics(mean) ==
             LET squares == [i \in DOMAIN values |->
                               QDiv((values[i] - mean) * (values[i] - mean),
                                    Unit)]
             IN [mean |-> mean,
                 min |-> MinSeq(values, Len(values)),
                 max |-> MaxSeq(values, Len(values)),
                 variance |-> QDiv(SumSeq(squares, Len(values)),
                                   Len(values))]
       IN Statistics(QDiv(SumSeq(values, Len(values)), Len(values)))

centerNormalize(frame) ==
  IF Len(frame.landmarks) < 25 THEN frame
  ELSE LET hipCenter == calculateMidpoint(At(frame.landmarks, 23),
                                          At(frame.landmarks, 24))
       IN [frame EXCEPT !.landmarks = translateLandmarks(@, hipCenter)]

scaleNormalize(frame) ==
  IF Len(frame.landmarks) < 13 THEN frame
  ELSE LET Scaled(shoulderWidth) ==
             IF shoulderWidth = 0 THEN frame
             ELSE [frame EXCEPT !.landmarks = scaleLandmarks(@, shoulderWidth)]
       IN Scaled(calculateDistance(At(frame.landmarks, 11),
                                   At(frame.landmarks, 12)))

\* Math.atan2(dz, dx) followed by rotateLandmarksY(landmarks, -angle): the
\* cosine and sine of -atan2(dz, dx) are dx / h and -dz / h for
\* h = sqrt(dx^2 + dz^2), and atan2(0, 0) = 0.
rotationNormalize(frame) ==
  IF Len(frame.landmarks) < 13 THEN frame
  ELSE LET dx == At(frame.landmarks, 12).x - At(frame.landmarks, 11).x
           dz == At(frame.landmarks, 12).z - At(frame.landmarks, 11).z
           Rotated(h) ==
             [frame EXCEPT !.landmarks =
                rotateLandmarksY(@, IF h = 0 THEN Fine ELSE FineDiv(dx, h),
                                    IF h = 0 THEN 0 ELSE -FineDiv(dz, h))]
       IN Rotated(Sqrt(dx * dx + dz * dz))

\* isLandmarkVisible taking every landmark of visibility above 0 as visible.
isLandmarkVisibleAboveZero(landmark, threshold) ==
  landmark.visibility = Undefined \/ landmark.visibility > 0

isLandmarkVisible(landmark, threshold) ==
  landmark.visibility = Undefined \/ landmark.visibility >= threshold

----------------------------------------------------------------------------
(* comparator/pose-comparator.ts                                           *)

\* A partial ComparatorConfig: a record holding any of the five fields, its
\* normalization a record holding any of the three flags.
Has(partial, field) == field \in DOMAIN partial

\* The normalization object of the caller taken as it is when there is one.
MergeNormalizationReplaced(partial) ==
  IF Has(partial, "normalization") THEN partial.normalization
  ELSE DEFAULT_COMPARATOR_CONFIG.normalization

\* { ...DEFAULT_COMPARATOR_CONFIG.normalization, ...config?.normalization }
MergeNormalization(partial) ==
  [flag \in {"center", "scale", "rotation"} |->
     IF Has(partial, "normalization") /\ Has(partial.normalization, flag)
     THEN partial.normalization[flag]
     ELSE DEFAULT_COMPARATOR_CONFIG.normalization[flag]]

\* The constructor merging the caller's weights over the default table, as
\* it merges the normalization flags.
ConstructorMerged(partial) ==
  [normalization |-> MergeNormalization(partial),
   landmarkWeights |->
     IF Has(partial, "landmarkWeights")
     THEN partial.landmarkWeights @@ DEFAULT_COMPARATOR_CONFIG.landmarkWeights
     ELSE DEFAULT_COMPARATOR_CONFIG.landmarkWeights,
   positionWeight |->
     IF Has(partial, "positionWeight") THEN partial.positionWeight
     ELSE DEFAULT_COMPARATOR_CONFIG.positionWeight,
   angularWeight |->
     IF Has(partial, "angularWeight") THEN partial.angularWeight
     ELSE DEFAULT_COMPARATOR_CONFIG.angularWeight,
   visibilityThreshold |->
     IF Has(partial, "visibilityThreshold") THEN partial.visibilityThreshold
     ELSE DEFAULT_COMPARATOR_CONFIG.visibilityThreshold]


\* PoseComparator.constructor: the resolved configuration.
Constructor(partial) ==
  [normalization |-> MergeNormalization(partial),
   landmarkWeights |->
     IF Has(partial, "landmarkWeights") THEN partial.landmarkWeights
     ELSE DEFAULT_COMPARATOR_CONFIG.landmarkWeights,
   positionWeight |->
     IF Has(partial, "positionWeight") THEN partial.positionWeight
     ELSE DEFAULT_COMPARATOR_CONFIG.positionWeight,
   angularWeight |->
     IF Has(partial, "angularWeight") THEN partial.angularWeight
     ELSE DEFAULT_COMPARATOR_CONFIG.angularWeight,
   visibilityThreshold |->
     IF Has(partial, "visibilityThreshold") THEN partial.visibilityThreshold
     ELSE DEFAULT_COMPARATOR_CONFIG.visibilityThreshold]

\* normalizeFrame applying the three transforms whatever the flags.
normalizeFrameUngated(cfg, frame) ==
  rotationNormalize(scaleNormalize(centerNormalize(frame)))

normalizeFrame(cfg, frame) ==
  LET centered == IF cfg.normalization.center THEN centerNormalize(frame)
                  ELSE frame
      scaled == IF cfg.normalization.scale THEN scaleNormalize(centered)
                ELSE centered
  IN IF cfg.normalization.rotation THEN rotationNormalize(scaled) ELSE scaled

\* this.config.landmarkWeights.get(i) ?? 1.0
WeightOf(cfg, i) ==
  IF i \in DOMAIN cfg.landmarkWeights THEN cfg.landmarkWeights[i] ELSE Unit

\* The decay constant k of calculateEuclideanScore.
K == 2

\* The loop of calculateEuclideanScore from index i on:
\* <<totalWeightedDistance, totalWeight>>.
RECURSIVE EuclideanLoop(_, _, _, _, _, _, _)
EuclideanLoop(cfg, refLandmarks, compLandmarks, i, minLength, totalWeightedDistance, totalWeight) ==
  IF i >= minLength THEN <<totalWeightedDistance, totalWeight>>
  ELSE IF \/ ~isLandmarkVisible(At(refLandmarks, i), cfg.visibilityThreshold)
          \/ ~isLandmarkVisible(At(compLandmarks, i), cfg.visibilityThreshold)
  THEN EuclideanLoop(cfg, refLandmarks, compLandmarks, i + 1, minLength,
                     totalWeightedDistance, totalWeight)
  ELSE LET distance == calculateDistance(At(refLandmarks, i),
                                         At(compLandmarks, i))
           weight == WeightOf(cfg, i)
       IN EuclideanLoop(cfg, refLandmarks, compLandmarks, i + 1, minLength,
                        totalWeightedDistance + distance * weight,
                        totalWeight + weight)

calculateEuclideanScore(cfg, reference, comparison) ==
  LET refLandmarks == reference.landmarks
      compLandmarks == comparison.landmarks
  IN IF Len(refLandmarks) = 0 \/ Len(compLandmarks) = 0 THEN 0
     ELSE LET minLength == Min(Len(refLandmarks), Len(compLandmarks))
              Score(totals) ==
                IF totals[2] = 0 THEN 0
                ELSE LET avgDistance == QDiv(totals[1], totals[2])
                         score == QDiv(100 * Exp(-K * avgDistance), Unit)
                     IN Max(0, Min(100 * Unit, score))
          IN Score(EuclideanLoop(cfg, refLandmarks, compLandmarks, 0,
                                 minLength, 0, 0))

\* The key joints of calculateAngularScore: left and right elbow, knee, hip.
Joints ==
  << <<11, 13, 15>>, <<12, 14, 16>>, <<23, 25, 27>>,
     <<24, 26, 28>>, <<11, 23, 25>>, <<12, 24, 26>> >>

\* The visibility test of a joint reading the landmark at its vertex only.
JointVisibleVertex(cfg, landmarks, joint) ==
  isLandmarkVisible(At(landmarks, joint[2]), cfg.visibilityThreshold)


JointVisible(cfg, landmarks, joint) ==
  /\ isLandmarkVisible(At(landmarks, joint[1]), cfg.visibilityThreshold)
  /\ isLandmarkVisible(At(landmarks, joint[2]), cfg.visibilityThreshold)
  /\ isLandmarkVisible(At(landmarks, joint[3]), cfg.visibilityThreshold)

JointAngle(landmarks, joint) ==
  calculateJointAngle(At(landmarks, joint[1]), At(landmarks, joint[2]),
                      At(landmarks, joint[3]))

\* The loop of calculateAngularScore from joint j on:
\* <<totalAngleDifference, validJointCount>>.
RECURSIVE AngularLoop(_, _, _, _, _, _)
AngularLoop(cfg, refLandmarks, compLandmarks, j, totalAngleDifference, validJointCount) ==
  IF j > Len(Joints) THEN <<totalAngleDifference, validJointCount>>
  ELSE IF \/ ~JointVisible(cfg, refLandmarks, Joints[j])
          \/ ~JointVisible(cfg, compLandmarks, Joints[j])
  THEN AngularLoop(cfg, refLandmarks, compLandmarks, j + 1,
                   totalAngleDifference, validJointCount)
  ELSE LET refAngle == JointAngle(refLandmarks, Joints[j])
           compAngle == JointAngle(compLandmarks, Joints[j])
       IN AngularLoop(cfg, refLandmarks, compLandmarks, j + 1,
                      totalAngleDifference + Abs(refAngle - compAngle),
                      validJointCount + 1)

\* The landmark count below which the angular score is 0.
PoseLandmarks == 33

\* calculateAngularScore returning the average difference as the score.
calculateAngularScoreDifference(cfg, reference, comparison) ==
  LET refLandmarks == reference.landmarks
      compLandmarks == comparison.landmarks
  IN IF Len(refLandmarks) < PoseLandmarks \/ Len(compLandmarks) < PoseLandmarks
     THEN 0
     ELSE LET Score(totals) ==
                IF totals[2] = 0 THEN 0
                ELSE LET avgAngleDifference == QDiv(totals[1], totals[2])
                         score ==
                           QDiv(100 * QDiv(avgAngleDifference * Unit, 180),
                                Unit)
                     IN Max(0, Min(100 * Unit, score))
          IN Score(AngularLoop(cfg, refLandmarks, compLandmarks, 1, 0, 0))

\* calculateAngularScore scoring a pair it cannot compare as a full match.
calculateAngularScoreFull(cfg, reference, comparison) ==
  LET refLandmarks == reference.landmarks
      compLandmarks == comparison.landmarks
  IN IF Len(refLandmarks) < PoseLandmarks \/ Len(compLandmarks) < PoseLandmarks
     THEN 100 * Unit
     ELSE LET Score(totals) ==
                IF totals[2] = 0 THEN 0
                ELSE LET avgAngleDifference == QDiv(totals[1], totals[2])
                         score ==
                           QDiv(100 * (Fine - QDiv(avgAngleDifference * Unit,
                                                   180)), Unit)
                     IN Max(0, Min(100 * Unit, score))
          IN Score(AngularLoop(cfg, refLandmarks, compLandmarks, 1, 0, 0))

calculateAngularScore(cfg, reference, comparison) ==
  LET refLandmarks == reference.landmarks
      compLandmarks == comparison.landmarks
  IN IF Len(refLandmarks) < PoseLandmarks \/ Len(compLandmarks) < PoseLandmarks
     THEN 0
     ELSE LET Score(totals) ==
                IF totals[2] = 0 THEN 0
                ELSE LET avgAngleDifference == QDiv(totals[1], totals[2])
                         score ==
                           QDiv(100 * (Fine - QDiv(avgAngleDifference * Unit,
                                                   180)), Unit)
                     IN Max(0, Min(100 * Unit, score))
          IN Score(AngularLoop(cfg, refLandmarks, compLandmarks, 1, 0, 0))

\* calculateTimingScore dividing the longer length by the shorter.
calculateTimingScoreInverted(referenceLength, comparisonLength) ==
  IF referenceLength = 0 \/ comparisonLength = 0 THEN 0
  ELSE LET ratio == FineDiv(Max(referenceLength, comparisonLength),
                            Min(referenceLength, comparisonLength))
       IN QDiv(ratio * 100, Unit)

\* calculateTimingScore giving up on videos of fewer than two frames.
calculateTimingScoreSingle(referenceLength, comparisonLength) ==
  IF referenceLength <= 1 \/ comparisonLength <= 1 THEN 0
  ELSE LET ratio == FineDiv(Min(referenceLength, comparisonLength),
                            Max(referenceLength, comparisonLength))
       IN QDiv(ratio * 100, Unit)

\* calculateTimingScore taking the length of the comparison video as a
\* share of the length of the reference video.
calculateTimingScoreOfReference(referenceLength, comparisonLength) ==
  IF referenceLength = 0 \/ comparisonLength = 0 THEN 0
  ELSE LET ratio == FineDiv(comparisonLength, referenceLength)
       IN QDiv(ratio * 100, Unit)


calculateTimingScore(referenceLength, comparisonLength) ==
  IF referenceLength = 0 \/ comparisonLength = 0 THEN 0
  ELSE LET ratio == FineDiv(Min(referenceLength, comparisonLength),
                            Max(referenceLength, comparisonLength))
       IN QDiv(ratio * 100, Unit)

\* compareFrames blending the two scores in equal parts, whatever the
\* weights of the configuration.
compareFramesEqualParts(cfg, reference, comparison) ==
  LET positionScore == calculateEuclideanScore(cfg, reference, comparison)
      angularScore == calculateAngularScore(cfg, reference, comparison)
  IN QDiv(positionScore + angularScore, 2)


compareFrames(cfg, reference, comparison) ==
  LET positionScore == calculateEuclideanScore(cfg, reference, comparison)
      angularScore == calculateAngularScore(cfg, reference, comparison)
  IN QDiv(positionScore * cfg.positionWeight
            + angularScore * cfg.angularWeight, Unit)

\* The zeroed result with the timing score of two equally long videos.
ZeroResultTimed ==
  [overallScore |-> 0,
   frameScores |-> << >>,
   breakdown |-> [positionScore |-> 0, angularScore |-> 0,
                  timingScore |-> 100 * Unit,
                  statistics |-> [mean |-> 0, min |-> 0, max |-> 0,
                                  variance |-> 0]]]

ZeroResult ==
  [overallScore |-> 0,
   frameScores |-> << >>,
   breakdown |-> [positionScore |-> 0, angularScore |-> 0, timingScore |-> 0,
                  statistics |-> [mean |-> 0, min |-> 0, max |-> 0,
                                  variance |-> 0]]]

\* The body of the loop of compareVideos for one frame pair:
\* <<frameScore, posScore, angScore>>.
FramePairScores(cfg, referenceFrame, comparisonFrame) ==
  LET Scores(refFrame, compFrame) ==
        <<compareFrames(cfg, refFrame, compFrame),
          calculateEuclideanScore(cfg, refFrame, compFrame),
          calculateAngularScore(cfg, refFrame, compFrame)>>
  IN Scores(normalizeFrame(cfg, referenceFrame),
            normalizeFrame(cfg, comparisonFrame))

----------------------------------------------------------------------------
(* The frames of pose-comparator.spec.ts, which the frame source supplies. *)

createLandmark(x, y, z, visibility) == Landmark(x, y, z, visibility)

\* Landmark i of createStandardFrame(offset).
StandardLandmark(i, offset) ==
  IF i = 11 THEN createLandmark(-Dec(1, 2) + offset, offset, offset, Unit)
  ELSE IF i = 12 THEN createLandmark(Dec(1, 2) + offset, offset, offset, Unit)
  ELSE IF i = 23
  THEN createLandmark(-Dec(1, 4) + offset, -Unit + offset, offset, Unit)
  ELSE IF i = 24
  THEN createLandmark(Dec(1, 4) + offset, -Unit + offset, offset, Unit)
  ELSE createLandmark(Dec(i, 10) + offset, Dec(i, 10) + offset,
                      Dec(i, 10) + offset, Unit)

createStandardFrame(offset) ==
  Frame([i \in 1..33 |-> StandardLandmark(i - 1, offset)], 0)

\* The frame of 'should return lower score for different poses'.
DifferentPoseFrame ==
  Frame([i \in 1..33 |->
           IF i - 1 \in {11, 12, 23, 24} THEN StandardLandmark(i - 1, 0)
           ELSE createLandmark(Dec(2 * (i - 1), 10), Dec(15 * (i - 1), 100),
                               Dec(5 * (i - 1), 100), Unit)], 0)

\* The frames of 'should handle frames with insufficient landmarks for
\* angles' (20 landmarks, visibility 1) and 'should handle frames with all
\* invisible landmarks' (33 landmarks, visibility 0.1).
PlainFrame(count, visibility) ==
  Frame([i \in 1..count |->
           createLandmark(Dec(i - 1, 10), Dec(i - 1, 10), Dec(i - 1, 10),
                          visibility)], 0)

\* A frame cut to its first count landmarks.
Truncate(frame, count) ==
  [frame EXCEPT !.landmarks = [i \in 1..count |-> frame.landmarks[i]]]

\* The standard frame with both shoulders at one point (shoulder width 0).
ZeroWidthFrame ==
  [createStandardFrame(0) EXCEPT
     !.landmarks[13] = createStandardFrame(0).landmarks[12]]

\* A frame with offset added to every coordinate of every landmark, as
\* createStandardFrame(offset) is to createStandardFrame(0).
TranslateFrame(frame, offset) ==
  [frame EXCEPT !.landmarks =
     [i \in DOMAIN @ |-> [@[i] EXCEPT !.x = @ + offset, !.y = @ + offset,
                                      !.z = @ + offset]]]

\* A frame with every coordinate of every landmark multiplied by factor.
ScaleFrame(frame, factor) ==
  [frame EXCEPT !.landmarks =
     [i \in DOMAIN @ |-> [@[i] EXCEPT !.x = @ * factor, !.y = @ * factor,
                                      !.z = @ * factor]]]

TranslateVideo(video, offset) ==
  Video([i \in DOMAIN video.frames |-> TranslateFrame(video.frames[i], offset)])
ScaleVideo(video, factor) ==
  Video([i \in DOMAIN video.frames |-> ScaleFrame(video.frames[i], factor)])

\* The most frames a caller draws for the two videos of one call.
MaxFrames == 4

\* The offsets and factors by which a caller moves and zooms a video.
Offsets == {5 * Unit}
Factors == {2}

\* The frame sources: each is the set of frames one caller draws from.
Sources ==
  { {createStandardFrame(0), DifferentPoseFrame},
    {Truncate(createStandardFrame(0), 25), PlainFrame(33, Dec(1, 10))},
    {PlainFrame(20, Unit), ZeroWidthFrame},
    {Truncate(createStandardFrame(0), 12), Frame(<< >>, 0)} }

\* The partial configurations callers construct comparators with.
PartialConfigs ==
  << << >>,
     [normalization |-> [center |-> FALSE]],
     [normalization |-> [scale |-> FALSE, rotation |-> TRUE]],
     [positionWeight |-> Unit] >>

----------------------------------------------------------------------------
(* PoseComparator.compareVideos                                           *)

\* The loop of compareVideos putting each frame score in front of the list.
RECURSIVE FrameLoopUnshift(_, _, _, _, _, _, _, _)
FrameLoopUnshift(cfg, reference, comparison, i, minLength, frameScores, totalPositionScore, totalAngularScore) ==
  IF i > minLength
  THEN <<frameScores, totalPositionScore, totalAngularScore>>
  ELSE LET Accumulate(scores) ==
             FrameLoopUnshift(cfg, reference, comparison, i + 1, minLength,
                              <<scores[1]>> \o frameScores,
                              totalPositionScore + scores[2],
                              totalAngularScore + scores[3])
       IN Accumulate(FramePairScores(cfg, reference.frames[i],
                                     comparison.frames[i]))

\* The loop of compareVideos, from frame pair i (1-based) on:
\* <<frameScores, totalPositionScore, totalAngularScore>>.
RECURSIVE FrameLoop(_, _, _, _, _, _, _, _)
FrameLoop(cfg, reference, comparison, i, minLength, frameScores, totalPositionScore, totalAngularScore) ==
  IF i > minLength
  THEN <<frameScores, totalPositionScore, totalAngularScore>>
  ELSE LET Accumulate(scores) ==
             FrameLoop(cfg, reference, comparison, i + 1, minLength,
                       Append(frameScores, scores[1]),
                       totalPositionScore + scores[2],
                       totalAngularScore + scores[3])
       IN Accumulate(FramePairScores(cfg, reference.frames[i],
                                     comparison.frames[i]))

\* compareVideos taking the timing score from the number of compared pairs.
compareVideosPairTiming(cfg, reference, comparison) ==
  LET minLength == Min(Len(reference.frames), Len(comparison.frames))
  IN IF minLength = 0 THEN ZeroResult
     ELSE LET Result(totals, statistics) ==
                [overallScore |-> statistics.mean,
                 frameScores |-> totals[1],
                 breakdown |-> [positionScore |-> QDiv(totals[2], minLength),
                                angularScore |-> QDiv(totals[3], minLength),
                                timingScore |->
                                  calculateTimingScore(Len(totals[1]),
                                                       Len(totals[1])),
                                statistics |-> statistics]]
              Scored(totals) == Result(totals, calculateStatistics(totals[1]))
          IN Scored(FrameLoop(cfg, reference, comparison, 1, minLength,
                              << >>, 0, 0))

\* compareVideos folding the timing score into the overall score.
compareVideosTimed(cfg, reference, comparison) ==
  LET minLength == Min(Len(reference.frames), Len(comparison.frames))
  IN IF minLength = 0 THEN ZeroResult
     ELSE LET timingScore == calculateTimingScore(Len(reference.frames),
                                                  Len(comparison.frames))
              Result(totals, statistics) ==
                [overallScore |->
                   QDiv(statistics.mean * timingScore, 100 * Unit),
                 frameScores |-> totals[1],
                 breakdown |-> [positionScore |-> QDiv(totals[2], minLength),
                                angularScore |-> QDiv(totals[3], minLength),
                                timingScore |-> timingScore,
                                statistics |-> statistics]]
              Scored(totals) == Result(totals, calculateStatistics(totals[1]))
          IN Scored(FrameLoop(cfg, reference, comparison, 1, minLength,
                              << >>, 0, 0))

\* PoseComparator.compareVideos: the ScoringResult it returns.
compareVideos(cfg, reference, comparison) ==
  LET minLength == Min(Len(reference.frames), Len(comparison.frames))
  IN IF minLength = 0 THEN ZeroResult
     ELSE LET timingScore == calculateTimingScore(Len(reference.frames),
                                                  Len(comparison.frames))
              Result(totals, statistics) ==
                [overallScore |-> statistics.mean,
                 frameScores |-> totals[1],
                 breakdown |-> [positionScore |-> QDiv(totals[2], minLength),
                                angularScore |-> QDiv(totals[3], minLength),
                                timingScore |-> timingScore,
                                statistics |-> statistics]]
              Scored(totals) == Result(totals, calculateStatistics(totals[1]))
          IN Scored(FrameLoop(cfg, reference, comparison, 1, minLength,
                              << >>, 0, 0))

----------------------------------------------------------------------------
(* Exceptions: reading a property of landmarks[i] throws a TypeError when   *)
(* i is not an index of the list. Each operator below tells whether its    *)
(* function, given these arguments, makes such a read.                      *)

\* What a call that threw leaves in place of its result.
TypeError == [error |-> "TypeError"]

\* centerNormalize reading the hip landmarks without a length test.
centerNormalizeThrowsUntested(frame) ==
  \E i \in {23, 24} : i >= Len(frame.landmarks)

\* centerNormalize reads landmarks[23] and landmarks[24] once its length
\* test has passed.
centerNormalizeThrows(frame) ==
  IF Len(frame.landmarks) < 25 THEN FALSE
  ELSE \E i \in {23, 24} : i >= Len(frame.landmarks)

\* scaleNormalize reads landmarks[11] and landmarks[12] once its length test
\* has passed.
scaleNormalizeThrows(frame) ==
  IF Len(frame.landmarks) < 13 THEN FALSE
  ELSE \E i \in {11, 12} : i >= Len(frame.landmarks)

\* rotationNormalize reads the same two landmarks after the same test.
rotationNormalizeThrows(frame) ==
  IF Len(frame.landmarks) < 13 THEN FALSE
  ELSE \E i \in {11, 12} : i >= Len(frame.landmarks)

\* normalizeFrame: a transform is reached when the ones before it returned.
normalizeFrameThrows(cfg, frame) ==
  LET AfterCenter(centered) ==
        \/ cfg.normalization.scale /\ scaleNormalizeThrows(centered)
        \/ /\ cfg.normalization.rotation
           /\ rotationNormalizeThrows(
                IF cfg.normalization.scale THEN scaleNormalize(centered)
                ELSE centered)
  IN IF cfg.normalization.center /\ centerNormalizeThrows(frame) THEN TRUE
     ELSE AfterCenter(IF cfg.normalization.center THEN centerNormalize(frame)
                      ELSE frame)

\* calculateEuclideanScore reads refLandmarks[i] and compLandmarks[i] for
\* every i below minLength.
calculateEuclideanScoreThrows(reference, comparison) ==
  IF Len(reference.landmarks) = 0 \/ Len(comparison.landmarks) = 0 THEN FALSE
  ELSE \E i \in 0..(Min(Len(reference.landmarks),
                        Len(comparison.landmarks)) - 1) :
         i >= Len(reference.landmarks) \/ i >= Len(comparison.landmarks)

\* calculateAngularScore reads the three landmarks of every joint in both
\* frames once its length test has passed.
calculateAngularScoreThrows(reference, comparison) ==
  IF Len(reference.landmarks) < 33 \/ Len(comparison.landmarks) < 33
  THEN FALSE
  ELSE \E j \in DOMAIN Joints : \E k \in 1..3 :
         \/ Joints[j][k] >= Len(reference.landmarks)
         \/ Joints[j][k] >= Len(comparison.landmarks)

\* compareVideos: the loop body of some frame pair throws.
compareVideosThrows(cfg, reference, comparison) ==
  LET PairThrows(refFrame, compFrame) ==
        \/ calculateEuclideanScoreThrows(refFrame, compFrame)
        \/ calculateAngularScoreThrows(refFrame, compFrame)
  IN \E i \in 1..Min(Len(reference.frames), Len(comparison.frames)) :
       IF \/ normalizeFrameThrows(cfg, reference.frames[i])
          \/ normalizeFrameThrows(cfg, comparison.frames[i])
       THEN TRUE
       ELSE PairThrows(normalizeFrame(cfg, reference.frames[i]),
                       normalizeFrame(cfg, comparison.frames[i]))

----------------------------------------------------------------------------
(* The caller: it constructs a comparator, draws the frames of two videos  *)
(* from its frame source, and calls compareVideos.                         *)

VARIABLES
  frameSource,      \* the frames the frame source supplies
  comparator,       \* the PoseComparator: its resolved configuration
  referenceVideo,   \* the reference video
  comparisonVideo,  \* the comparison video
  result,           \* the ScoringResult of the last call
  pc             \* "input": the videos are being built; "returned": compared

\* PoseService and its database, used by the specification of the service
\* below; the callers of this section leave them as they start.
VARIABLES
  latestByClientId,      \* PoseService.latestByClientId
  lastSeenAtByClientId,  \* PoseService.lastSeenAtByClientId
  videoIdByClientId,     \* PoseService.videoIdByClientId
  prisma,                \* the database: its videos and its frames
  tasks,                 \* the asynchronous calls that have not resolved
  calls,                 \* the PoseService.compareVideos calls
  clock,                 \* the time Date.now() reads
  sockets                \* PoseGateway: the sockets by clientId

serviceVars ==
  <<latestByClientId, lastSeenAtByClientId, videoIdByClientId, prisma, tasks,
    calls, clock, sockets>>

vars ==
  <<frameSource, comparator, referenceVideo, comparisonVideo, result, pc,
    serviceVars>>

\* No client has connected, the database is empty, no call is in flight.
ServiceInit ==
  /\ latestByClientId = << >>
  /\ lastSeenAtByClientId = << >>
  /\ videoIdByClientId = << >>
  /\ prisma = [video |-> << >>, frame |-> << >>]
  /\ tasks = {}
  /\ calls = << >>
  /\ clock = 0
  /\ sockets = << >>

Init ==
  /\ frameSource \in Sources
  /\ \E p \in DOMAIN PartialConfigs :
       comparator = [config |-> Constructor(PartialConfigs[p])]
  /\ referenceVideo = Video(<< >>)
  /\ comparisonVideo = Video(<< >>)
  /\ result = << >>
  /\ pc = "input"
  /\ ServiceInit

AppendReference(frame) ==
  /\ pc = "input"
  /\ Len(referenceVideo.frames) + Len(comparisonVideo.frames) < MaxFrames
  /\ referenceVideo' = Video(Append(referenceVideo.frames, frame))
  /\ UNCHANGED <<frameSource, comparator, comparisonVideo, result, pc,
               serviceVars>>

AppendComparison(frame) ==
  /\ pc = "input"
  /\ Len(referenceVideo.frames) + Len(comparisonVideo.frames) < MaxFrames
  /\ comparisonVideo' = Video(Append(comparisonVideo.frames, frame))
  /\ UNCHANGED <<frameSource, comparator, referenceVideo, result, pc,
               serviceVars>>

CompareVideos ==
  /\ pc = "input"
  /\ result' =
       IF compareVideosThrows(comparator.config, referenceVideo,
                              comparisonVideo)
       THEN TypeError
       ELSE compareVideos(comparator.config, referenceVideo, comparisonVideo)
  /\ pc' = "returned"
  /\ UNCHANGED <<frameSource, comparator, referenceVideo, comparisonVideo,
               serviceVars>>

\* The caller drops the result and the videos and starts on the next pair.
NextCall ==
  /\ pc = "returned"
  /\ referenceVideo' = Video(<< >>)
  /\ comparisonVideo' = Video(<< >>)
  /\ result' = << >>
  /\ pc' = "input"
  /\ UNCHANGED <<frameSource, comparator,
               serviceVars>>

Next ==
  \/ \E frame \in frameSource : AppendReference(frame)
  \/ \E frame \in frameSource : AppendComparison(frame)
  \/ CompareVideos
  \/ NextCall

Spec == Init /\ [][Next]_vars

----------------------------------------------------------------------------
(* Properties of compareVideos, stated of the call that has returned.       *)

\* C1: compareVideos returns one frame score for each of the first
\* min(|reference.frames|, |comparison.frames|) frame pairs, and entry i is
\* the combined score of reference.frames[i] against comparison.frames[i].
C1_FrameScoresAligned ==
  pc = "returned" =>
    /\ Len(result.frameScores) =
         Min(Len(referenceVideo.frames), Len(comparisonVideo.frames))
    /\ \A i \in 1..Len(result.frameScores) :
         result.frameScores[i] =
           compareFrames(comparator.config,
                         normalizeFrame(comparator.config,
                                        referenceVideo.frames[i]),
                         normalizeFrame(comparator.config,
                                        comparisonVideo.frames[i]))

\* Two frame pairs were compared and their scores differ.
C1_Witness ==
  /\ pc = "returned"
  /\ Len(result.frameScores) = 2
  /\ result.frameScores[1] # result.frameScores[2]

\* C2: if either video has no frames, compareVideos returns the zeroed
\* result: overallScore 0, no frame scores, every breakdown score and every
\* statistic 0.
C2_EmptyVideoZeroResult ==
  (/\ pc = "returned"
   /\ \/ Len(referenceVideo.frames) = 0
      \/ Len(comparisonVideo.frames) = 0)
  => /\ result.overallScore = 0
     /\ result.frameScores = << >>
     /\ result.breakdown.positionScore = 0
     /\ result.breakdown.angularScore = 0
     /\ result.breakdown.timingScore = 0
     /\ result.breakdown.statistics =
          [mean |-> 0, min |-> 0, max |-> 0, variance |-> 0]

\* Only one of the two videos is empty.
C2_Witness ==
  /\ pc = "returned"
  /\ Len(referenceVideo.frames) > 0
  /\ Len(comparisonVideo.frames) = 0

\* The frame holds the hip and shoulder landmarks and its shoulders are apart.
HipsAndShoulders(frame) ==
  /\ Len(frame.landmarks) >= 25
  /\ calculateDistance(At(frame.landmarks, 11), At(frame.landmarks, 12)) # 0

\* The frame holds all pose landmarks and all three landmarks of one of the
\* key joints are visible.
FullPose(cfg, frame) ==
  /\ Len(frame.landmarks) >= PoseLandmarks
  /\ \E j \in DOMAIN Joints : JointVisible(cfg, frame.landmarks, Joints[j])

\* A video has been compared with an identical copy under the defaults.
ComparedWithCopy ==
  /\ pc = "returned"
  /\ comparator.config = DEFAULT_COMPARATOR_CONFIG
  /\ comparisonVideo = referenceVideo
  /\ Len(referenceVideo.frames) >= 1

\* C3 as stated: a video of one or more frames, each with the hip and
\* shoulder landmarks (25 landmarks or more) and non-zero shoulder width,
\* scores 95 or more against an identical copy under the default
\* configuration.
C3_Original ==
  (/\ ComparedWithCopy
   /\ \A i \in DOMAIN referenceVideo.frames :
        HipsAndShoulders(referenceVideo.frames[i]))
  => result.overallScore >= 95 * Unit

\* C3: a video of one or more frames, each with all 33 pose landmarks, a
\* key joint whose three landmarks are visible and non-zero shoulder width,
\* scores 95 or more against an identical copy under the default
\* configuration.
C3_IdenticalVideoScore ==
  (/\ ComparedWithCopy
   /\ \A i \in DOMAIN referenceVideo.frames :
        /\ HipsAndShoulders(referenceVideo.frames[i])
        /\ FullPose(comparator.config, referenceVideo.frames[i]))
  => result.overallScore >= 95 * Unit

\* A video of two different full poses was compared with its copy.
C3_Witness ==
  /\ ComparedWithCopy
  /\ Len(referenceVideo.frames) = 2
  /\ referenceVideo.frames[1] # referenceVideo.frames[2]
  /\ \A i \in DOMAIN referenceVideo.frames :
       /\ HipsAndShoulders(referenceVideo.frames[i])
       /\ FullPose(comparator.config, referenceVideo.frames[i])

\* A video P has been compared with itself by a centering comparator.
CenteredSelfComparison ==
  /\ pc = "returned"
  /\ comparator.config.normalization.center
  /\ comparisonVideo = referenceVideo

\* Comparing P with P moved by any offset gives the overall score that
\* comparing P with itself gave.
MovedCopyScoresAlike ==
  \A offset \in Offsets :
    compareVideos(comparator.config, referenceVideo,
                  TranslateVideo(referenceVideo, offset)).overallScore
      = result.overallScore

\* C4 as stated: with center=true, for every video P and every offset,
\* comparing P with P moved by the offset returns the overallScore of
\* comparing P with itself.
C4_Original == CenteredSelfComparison => MovedCopyScoresAlike

\* C4: with center=true, for every video P whose frames all hold the hip
\* landmarks (25 landmarks or more) and every offset, comparing P with P
\* moved by the offset returns the overallScore of comparing P with itself.
C4_TranslationInvariant ==
  (/\ CenteredSelfComparison
   /\ \A i \in DOMAIN referenceVideo.frames :
        Len(referenceVideo.frames[i].landmarks) >= 25)
  => MovedCopyScoresAlike

\* A video of frames that hold the hips has been compared with itself, and
\* moving it changes what the position score would be without centering.
C4_Witness ==
  /\ CenteredSelfComparison
  /\ Len(referenceVideo.frames) >= 1
  /\ \A i \in DOMAIN referenceVideo.frames :
       Len(referenceVideo.frames[i].landmarks) >= 25
  /\ result.breakdown.positionScore > 0
  /\ \E offset \in Offsets :
       calculateEuclideanScore(
         comparator.config, referenceVideo.frames[1],
         TranslateFrame(referenceVideo.frames[1], offset)) = 0

\* Two videos have been compared by a scaling comparator.
ScaledComparison ==
  /\ pc = "returned"
  /\ comparator.config.normalization.scale

\* Comparing the reference with the comparison video zoomed by any factor
\* gives the overall score that the unscaled pair gave.
ZoomedVideoScoresAlike ==
  \A factor \in Factors :
    compareVideos(comparator.config, referenceVideo,
                  ScaleVideo(comparisonVideo, factor)).overallScore
      = result.overallScore

\* C5 as stated: with scale=true, for every pair of videos, multiplying
\* every coordinate of one video by a positive factor leaves overallScore
\* as it is for the unscaled pair.
C5_Original == ScaledComparison => ZoomedVideoScoresAlike

\* C5: with scale=true, multiplying every coordinate of one video by a
\* positive factor leaves overallScore as it is for the unscaled pair,
\* provided every frame of that video holds the shoulder landmarks (13
\* landmarks or more) with non-zero shoulder width.
C5_ZoomInvariant ==
  (/\ ScaledComparison
   /\ \A i \in DOMAIN comparisonVideo.frames :
        /\ Len(comparisonVideo.frames[i].landmarks) >= 13
        /\ calculateDistance(At(comparisonVideo.frames[i].landmarks, 11),
                             At(comparisonVideo.frames[i].landmarks, 12)) # 0)
  => ZoomedVideoScoresAlike

\* Two non-empty videos with shoulders were compared, with a positive
\* score, and zooming changes the comparison video.
C5_Witness ==
  /\ ScaledComparison
  /\ Len(referenceVideo.frames) >= 1
  /\ Len(comparisonVideo.frames) >= 1
  /\ \A i \in DOMAIN comparisonVideo.frames :
       /\ Len(comparisonVideo.frames[i].landmarks) >= 13
       /\ calculateDistance(At(comparisonVideo.frames[i].landmarks, 11),
                            At(comparisonVideo.frames[i].landmarks, 12)) # 0
  /\ result.overallScore > 0
  /\ \E factor \in Factors :
       ScaleVideo(comparisonVideo, factor) # comparisonVideo

\* The score lies between 0 and 100.
InRange(score) == 0 <= score /\ score <= 100 * Unit

WeightsWithinOne ==
  /\ comparator.config.positionWeight >= 0
  /\ comparator.config.angularWeight >= 0
  /\ comparator.config.positionWeight + comparator.config.angularWeight
       <= Unit

C7_TimingFromFrameCounts ==
  pc = "returned" =>
    LET a == Len(referenceVideo.frames)
        b == Len(comparisonVideo.frames)
        timingScore == result.breakdown.timingScore
    IN IF a = 0 \/ b = 0 THEN timingScore = 0
       ELSE Abs(timingScore * Max(a, b) - 100 * Unit * Min(a, b))
              < 2 * Max(a, b)

\* Two non-empty videos of different lengths were compared.
C7_Witness ==
  /\ pc = "returned"
  /\ Len(referenceVideo.frames) >= 1
  /\ Len(comparisonVideo.frames) > Len(referenceVideo.frames)

\* C8 as stated: for every pair of videos of the same number of frames,
\* timingScore is 100.
C8_Original ==
  (/\ pc = "returned"
   /\ Len(referenceVideo.frames) = Len(comparisonVideo.frames))
  => result.breakdown.timingScore = 100 * Unit

\* C8: for every pair of videos of the same number of frames, one or more,
\* timingScore is 100.
C8_EqualLengthTiming ==
  (/\ pc = "returned"
   /\ Len(referenceVideo.frames) = Len(comparisonVideo.frames)
   /\ Len(referenceVideo.frames) >= 1)
  => result.breakdown.timingScore = 100 * Unit

\* Two different videos of one frame each were compared.
C8_Witness ==
  /\ pc = "returned"
  /\ Len(referenceVideo.frames) = 1
  /\ Len(comparisonVideo.frames) = 1
  /\ referenceVideo # comparisonVideo

\* The result of a comparison but for its timing score.
Untimed(scoring) ==
  <<scoring.overallScore, scoring.frameScores,
    scoring.breakdown.positionScore, scoring.breakdown.angularScore,
    scoring.breakdown.statistics>>

\* C9: overallScore is the mean of frameScores, and appending a frame to
\* the longer video changes timingScore and leaves overallScore,
\* frameScores, positionScore, angularScore and statistics as they were.
C9_OverallIsFrameMean ==
  pc = "returned" =>
    /\ result.overallScore =
         IF Len(result.frameScores) = 0 THEN 0
         ELSE QDiv(SumSeq(result.frameScores, Len(result.frameScores)),
                   Len(result.frameScores))
    /\ Len(referenceVideo.frames) > Len(comparisonVideo.frames) =>
         \A frame \in frameSource :
           LET longer == compareVideos(
                           comparator.config,
                           Video(Append(referenceVideo.frames, frame)),
                           comparisonVideo)
           IN /\ Untimed(longer) = Untimed(result)
              /\ Len(comparisonVideo.frames) > 0 =>
                   longer.breakdown.timingScore
                     < result.breakdown.timingScore
    /\ Len(comparisonVideo.frames) > Len(referenceVideo.frames) =>
         \A frame \in frameSource :
           LET longer == compareVideos(
                           comparator.config, referenceVideo,
                           Video(Append(comparisonVideo.frames, frame)))
           IN /\ Untimed(longer) = Untimed(result)
              /\ Len(referenceVideo.frames) > 0 =>
                   longer.breakdown.timingScore
                     < result.breakdown.timingScore

\* A reference video was compared with a shorter, non-empty comparison
\* video, and the frame pairs scored above 0.
C9_Witness ==
  /\ pc = "returned"
  /\ Len(referenceVideo.frames) > Len(comparisonVideo.frames)
  /\ Len(result.frameScores) >= 1
  /\ result.overallScore > 0
  /\ result.breakdown.timingScore < 100 * Unit

\* C10: for a frame pair in which either frame has fewer than 33 landmarks
\* the angular score is 0, and so is the angularScore of a comparison all
\* of whose frame pairs are such.
C10_FewLandmarksNoAngle ==
  pc = "returned" =>
    LET Short(i) ==
          \/ Len(referenceVideo.frames[i].landmarks) < 33
          \/ Len(comparisonVideo.frames[i].landmarks) < 33
    IN /\ \A i \in DOMAIN result.frameScores :
            Short(i) =>
              calculateAngularScore(
                comparator.config,
                normalizeFrame(comparator.config, referenceVideo.frames[i]),
                normalizeFrame(comparator.config, comparisonVideo.frames[i]))
                = 0
       /\ (\A i \in DOMAIN result.frameScores : Short(i)) =>
            result.breakdown.angularScore = 0

\* A frame of 33 landmarks with a visible key joint was compared with a
\* frame of fewer landmarks, and their positions were scored.
C10_Witness ==
  /\ pc = "returned"
  /\ Len(result.frameScores) = 1
  /\ FullPose(comparator.config, referenceVideo.frames[1])
  /\ Len(comparisonVideo.frames[1].landmarks) \in 1..32
  /\ result.breakdown.positionScore > 0

----------------------------------------------------------------------------
(* The utilities and the comparator on single frames: the frames and the   *)
(* configurations of pose-comparison.utils.spec.ts, pose-comparator.spec.ts *)
(* and pose-comparator.example.ts.                                          *)

\* Array(count).fill({ x, y, z, visibility: 1 }) of the utility tests.
FilledFrame(count, x, y, z) ==
  Frame([i \in 1..count |-> createLandmark(x, y, z, Unit)], 0)

\* The frame of 'should center landmarks around hip midpoint'.
HipsFrame ==
  [FilledFrame(25, 0, 0, 0) EXCEPT
     !.landmarks[24] = createLandmark(-Unit, 0, 0, Unit),
     !.landmarks[25] = createLandmark(Unit, 0, 0, Unit)]

\* The frame of 'should scale landmarks to shoulder width of 1.0'.
ShouldersFrame ==
  [FilledFrame(13, 0, 0, 0) EXCEPT
     !.landmarks[12] = createLandmark(-2 * Unit, 0, 0, Unit),
     !.landmarks[13] = createLandmark(2 * Unit, 0, 0, Unit)]

\* The frame of 'should align shoulders horizontally'.
TurnedFrame ==
  [FilledFrame(13, 0, 0, 0) EXCEPT
     !.landmarks[12] = createLandmark(0, 0, Unit, Unit),
     !.landmarks[13] = createLandmark(Unit, 0, 0, Unit)]

\* The frame of 'should return frame unchanged if not enough landmarks'.
TenLandmarkFrame == FilledFrame(10, Unit, Unit, Unit)

\* A recorded standard frame (timestamp 1) in which the landmarks of one
\* parity only are visible: half of them carry no visibility value, half the
\* value 0.5 of 'should handle threshold edge case'; the others carry 0.4.
HalfVisibleFrame(parity) ==
  Frame([i \in 1..33 |->
           [StandardLandmark(i - 1, 0) EXCEPT
              !.visibility = IF (i - 1) % 2 # parity THEN Dec(4, 10)
                             ELSE IF (i - 1) % 4 < 2 THEN Undefined
                             ELSE Dec(5, 10)]], 1)

\* The different pose with the left elbow (13) at the left shoulder (11),
\* as 'should handle zero magnitude vectors' puts two points together.
CollapsedElbowFrame ==
  [DifferentPoseFrame EXCEPT
     !.landmarks[14] = DifferentPoseFrame.landmarks[12]]

\* The frames the single-frame calls are made on.
UnitFrames ==
  { createStandardFrame(0), DifferentPoseFrame, CollapsedElbowFrame,
    HalfVisibleFrame(0), HalfVisibleFrame(1), PlainFrame(33, Dec(1, 10)),
    PlainFrame(20, Unit), HipsFrame, ShouldersFrame, TurnedFrame,
    TenLandmarkFrame, Frame(<< >>, 0) }

\* A normalization object with all three flags.
Flags(center, scale, rotation) ==
  [center |-> center, scale |-> scale, rotation |-> rotation]

\* The partial configurations comparators are constructed with: those of
\* the tests and of the examples, every combination of the three flags, a
\* normalization object with one flag or none, a weight map of two
\* landmarks, and all five fields together.
UnitPartials ==
  << << >>,
     [normalization |-> Flags(TRUE, TRUE, TRUE)],
     [positionWeight |-> Dec(8, 10), angularWeight |-> Dec(2, 10)],
     [visibilityThreshold |-> Dec(8, 10)],
     [normalization |-> Flags(TRUE, TRUE, TRUE),
      positionWeight |-> Dec(8, 10), angularWeight |-> Dec(2, 10),
      visibilityThreshold |-> Dec(7, 10)],
     [normalization |-> Flags(TRUE, TRUE, FALSE)],
     [normalization |-> Flags(TRUE, FALSE, TRUE)],
     [normalization |-> Flags(TRUE, FALSE, FALSE)],
     [normalization |-> Flags(FALSE, TRUE, TRUE)],
     [normalization |-> Flags(FALSE, TRUE, FALSE)],
     [normalization |-> Flags(FALSE, FALSE, TRUE)],
     [normalization |-> Flags(FALSE, FALSE, FALSE)],
     [normalization |-> << >>],
     [normalization |-> [center |-> FALSE]],
     [normalization |-> [scale |-> FALSE]],
     [normalization |-> [rotation |-> TRUE]],
     [landmarkWeights |-> (11 :> 2 * Unit) @@ (12 :> 0)],
     [normalization |-> [rotation |-> TRUE],
      landmarkWeights |-> (11 :> 2 * Unit) @@ (12 :> 0),
      positionWeight |-> Dec(5, 10), angularWeight |-> Dec(5, 10),
      visibilityThreshold |-> Dec(4, 10)] >>


\* A comparator is constructed from one of the partial configurations; it
\* keeps the resolved configuration, and the caller what it passed.
UnitInit ==
  /\ frameSource = UnitFrames
  /\ \E p \in DOMAIN UnitPartials :
       comparator = [partial |-> UnitPartials[p],
                     config |-> Constructor(UnitPartials[p])]
  /\ referenceVideo = Video(<< >>)
  /\ comparisonVideo = Video(<< >>)
  /\ result = << >>
  /\ pc = "input"
  /\ ServiceInit

\* const video: Video = { frames: [frame] }
LoadReference(frame) ==
  /\ pc = "input"
  /\ referenceVideo.frames = << >>
  /\ referenceVideo' = Video(<<frame>>)
  /\ UNCHANGED <<frameSource, comparator, comparisonVideo, result, pc,
               serviceVars>>

LoadComparison(frame) ==
  /\ pc = "input"
  /\ comparisonVideo.frames = << >>
  /\ comparisonVideo' = Video(<<frame>>)
  /\ UNCHANGED <<frameSource, comparator, referenceVideo, result, pc,
               serviceVars>>

\* A utility test holds one frame (kept here as the reference video's) and
\* no second one.
OneFrame ==
  /\ pc = "input"
  /\ Len(referenceVideo.frames) = 1
  /\ comparisonVideo.frames = << >>

\* const normalized = centerNormalize(frame): the frame and its landmarks
\* are read, the result is built from new objects.
CenterNormalize ==
  /\ OneFrame
  /\ result' = centerNormalize(referenceVideo.frames[1])
  /\ pc' = "centerNormalize"
  /\ UNCHANGED <<frameSource, comparator, referenceVideo, comparisonVideo,
               serviceVars>>

ScaleNormalize ==
  /\ OneFrame
  /\ result' = scaleNormalize(referenceVideo.frames[1])
  /\ pc' = "scaleNormalize"
  /\ UNCHANGED <<frameSource, comparator, referenceVideo, comparisonVideo,
               serviceVars>>

RotationNormalize ==
  /\ OneFrame
  /\ result' = rotationNormalize(referenceVideo.frames[1])
  /\ pc' = "rotationNormalize"
  /\ UNCHANGED <<frameSource, comparator, referenceVideo, comparisonVideo,
               serviceVars>>

\* The factors of the scaleLandmarks tests: 2 and 0.
ScaleFactors == {2 * Unit, 0}

\* const scaled = scaleLandmarks(landmarks, factor)
ScaleLandmarks(factor) ==
  /\ OneFrame
  /\ result' = [factor |-> factor,
                scaled |-> scaleLandmarks(referenceVideo.frames[1].landmarks,
                                          factor)]
  /\ pc' = "scaleLandmarks"
  /\ UNCHANGED <<frameSource, comparator, referenceVideo, comparisonVideo,
               serviceVars>>

\* The longest list of values statistics are calculated for.
MaxValues == 3

\* The values of the lists: scores between 0 and 100 and, as frame scores
\* under a negative weight are, one below 0.
ScoreValues == {-5 * Unit, 0, Dec(1025, 100), 42 * Unit, 100 * Unit}

\* The lists of at most MaxValues values.
ValueLists == UNION {[1..n -> ScoreValues] : n \in 0..MaxValues}

\* const stats = calculateStatistics(values)
CalculateStatistics(values) ==
  /\ pc = "input"
  /\ referenceVideo.frames = << >>
  /\ comparisonVideo.frames = << >>
  /\ result' = [values |-> values, stats |-> calculateStatistics(values)]
  /\ pc' = "calculateStatistics"
  /\ UNCHANGED <<frameSource, comparator, referenceVideo, comparisonVideo,
               serviceVars>>

\* normalizeFrame, statement by statement; result holds its local variable
\* normalized. let normalized = frame
NormalizeFrameCall ==
  /\ OneFrame
  /\ result' = referenceVideo.frames[1]
  /\ pc' = "center"
  /\ UNCHANGED <<frameSource, comparator, referenceVideo, comparisonVideo,
               serviceVars>>

\* if (this.config.normalization.center) normalized = centerNormalize(...)
CenterStep ==
  /\ pc = "center"
  /\ result' = IF comparator.config.normalization.center
               THEN centerNormalize(result) ELSE result
  /\ pc' = "scale"
  /\ UNCHANGED <<frameSource, comparator, referenceVideo, comparisonVideo,
               serviceVars>>

\* if (this.config.normalization.scale) normalized = scaleNormalize(...)
ScaleStep ==
  /\ pc = "scale"
  /\ result' = IF comparator.config.normalization.scale
               THEN scaleNormalize(result) ELSE result
  /\ pc' = "rotation"
  /\ UNCHANGED <<frameSource, comparator, referenceVideo, comparisonVideo,
               serviceVars>>

\* if (this.config.normalization.rotation) normalized =
\* rotationNormalize(...); return normalized
RotationStep ==
  /\ pc = "rotation"
  /\ result' = IF comparator.config.normalization.rotation
               THEN rotationNormalize(result) ELSE result
  /\ pc' = "normalizeFrame"
  /\ UNCHANGED <<frameSource, comparator, referenceVideo, comparisonVideo,
               serviceVars>>

\* The positions at which a utility call has returned.
UnitCalls ==
  {"centerNormalize", "scaleNormalize", "rotationNormalize", "normalizeFrame",
   "scaleLandmarks", "calculateStatistics"}

\* The test ends: its frame and the returned value are dropped.
UnitReturn ==
  /\ pc \in UnitCalls
  /\ referenceVideo' = Video(<< >>)
  /\ comparisonVideo' = Video(<< >>)
  /\ result' = << >>
  /\ pc' = "input"
  /\ UNCHANGED <<frameSource, comparator,
               serviceVars>>

UnitNext ==
  \/ \E frame \in frameSource : LoadReference(frame)
  \/ \E frame \in frameSource : LoadComparison(frame)
  \/ CompareVideos
  \/ NextCall
  \/ CenterNormalize
  \/ ScaleNormalize
  \/ RotationNormalize
  \/ \E factor \in ScaleFactors : ScaleLandmarks(factor)
  \/ \E values \in ValueLists : CalculateStatistics(values)
  \/ NormalizeFrameCall
  \/ CenterStep
  \/ ScaleStep
  \/ RotationStep
  \/ UnitReturn

UnitSpec == UnitInit /\ [][UnitNext]_vars

----------------------------------------------------------------------------
(* Properties of the comparator and the utilities on single frames.         *)

\* The landmark has no visibility value or one that is not below the
\* threshold.
CountsAsVisible(landmark, threshold) ==
  landmark.visibility = Undefined \/ ~(landmark.visibility < threshold)

\* At some index the two frames both hold a landmark that counts as visible.
VisibleInBoth(threshold, reference, comparison) ==
  \E k \in 1..Min(Len(reference.landmarks), Len(comparison.landmarks)) :
    /\ CountsAsVisible(reference.landmarks[k], threshold)
    /\ CountsAsVisible(comparison.landmarks[k], threshold)

\* C11: the position score of a frame pair is 0 when at every index one of
\* the two landmarks is below the visibility threshold, or when either frame
\* has no landmarks; landmarks without a visibility value and landmarks at
\* the threshold count as visible, so a frame compared with itself has
\* position score 100 when a landmark of positive weight is visible in it.
C11_NoVisiblePairNoPosition ==
  (pc = "returned" /\ Len(result.frameScores) = 1) =>
    LET cfg == comparator.config
        reference == referenceVideo.frames[1]
        comparison == comparisonVideo.frames[1]
    IN /\ ~VisibleInBoth(cfg.visibilityThreshold, reference, comparison) =>
            /\ calculateEuclideanScore(cfg, normalizeFrame(cfg, reference),
                                       normalizeFrame(cfg, comparison)) = 0
            /\ result.breakdown.positionScore = 0
       /\ (/\ comparison = reference
           /\ \E k \in DOMAIN reference.landmarks :
                /\ CountsAsVisible(reference.landmarks[k],
                                   cfg.visibilityThreshold)
                /\ \A i \in DOMAIN reference.landmarks :
                     WeightOf(cfg, i - 1) > 0)
          => result.breakdown.positionScore = 100 * Unit

\* Two frames that each hold visible landmarks, but none at the same index,
\* were compared.
C11_Witness ==
  /\ pc = "returned"
  /\ Len(result.frameScores) = 1
  /\ VisibleInBoth(comparator.config.visibilityThreshold,
                   referenceVideo.frames[1], referenceVideo.frames[1])
  /\ VisibleInBoth(comparator.config.visibilityThreshold,
                   comparisonVideo.frames[1], comparisonVideo.frames[1])
  /\ ~VisibleInBoth(comparator.config.visibilityThreshold,
                    referenceVideo.frames[1], comparisonVideo.frames[1])
  /\ \E k \in DOMAIN referenceVideo.frames[1].landmarks :
       referenceVideo.frames[1].landmarks[k].visibility = Undefined


\* The value is a ScoringResult: three fields, every score a number.
IsScoringResult(scoring) ==
  /\ DOMAIN scoring = {"overallScore", "frameScores", "breakdown"}
  /\ scoring.overallScore \in Int
  /\ \A i \in DOMAIN scoring.frameScores : scoring.frameScores[i] \in Int
  /\ DOMAIN scoring.breakdown =
       {"positionScore", "angularScore", "timingScore", "statistics"}
  /\ scoring.breakdown.positionScore \in Int
  /\ scoring.breakdown.angularScore \in Int
  /\ scoring.breakdown.timingScore \in Int
  /\ \A field \in {"mean", "min", "max", "variance"} :
       scoring.breakdown.statistics[field] \in Int

SameShape(frame, returned) ==
  /\ Len(returned.landmarks) = Len(frame.landmarks)
  /\ \A i \in DOMAIN frame.landmarks :
       returned.landmarks[i].visibility = frame.landmarks[i].visibility
  /\ returned.timestamp = frame.timestamp

\* C14: a call of centerNormalize, scaleNormalize or rotationNormalize
\* leaves the frame it is given as it was, and returns a frame with the same
\* number of landmarks, the same visibility of every landmark and the same
\* timestamp.
C14_NormalizersKeepInput ==
  [][(pc = "input" /\ pc' \in {"centerNormalize", "scaleNormalize",
                               "rotationNormalize"})
     => /\ referenceVideo' = referenceVideo
        /\ SameShape(referenceVideo.frames[1], result')]_vars

\* centerNormalize returned moved landmarks for a recorded frame (timestamp
\* 1) some of whose landmarks carry no visibility value.
C14_Witness ==
  /\ pc = "centerNormalize"
  /\ result.landmarks # referenceVideo.frames[1].landmarks
  /\ referenceVideo.frames[1].timestamp = 1
  /\ \E i \in DOMAIN result.landmarks :
       result.landmarks[i].visibility = Undefined
  /\ \E i \in DOMAIN result.landmarks :
       result.landmarks[i].visibility = Dec(4, 10)


\* The coordinate is 0 to the resolution of the numbers.
NearZero(a) == Abs(a) <= 2

\* The midpoint of the hips (23, 24) is at the origin.
HipsAtOrigin(frame) ==
  /\ NearZero(At(frame.landmarks, 23).x + At(frame.landmarks, 24).x)
  /\ NearZero(At(frame.landmarks, 23).y + At(frame.landmarks, 24).y)
  /\ NearZero(At(frame.landmarks, 23).z + At(frame.landmarks, 24).z)

\* The shoulders (11, 12) are at distance 1.
ShouldersOneApart(frame) ==
  NearZero(calculateDistance(At(frame.landmarks, 11),
                             At(frame.landmarks, 12)) - Unit)

\* The shoulders (11, 12) have the same depth.
ShouldersLevel(frame) ==
  NearZero(At(frame.landmarks, 12).z - At(frame.landmarks, 11).z)

\* C15: normalizeFrame goes through center, scale and rotation in this
\* order. A transform whose flag is false leaves the frame as it is; so
\* does one whose anchor landmarks are missing (fewer than 25 landmarks for
\* center, fewer than 13 for scale and rotation), and the next transform is
\* still reached. An enabled transform with its anchors puts the hip
\* midpoint at the origin, the shoulders at distance 1 (unless they
\* coincide), the shoulders at the same depth. What is returned is what
\* compareVideos compares.
C15_NormalizationOrder ==
  [][LET cfg == comparator.config
     IN /\ pc = "input" /\ pc' # "input" /\ pc' \notin UnitCalls
             /\ pc' # "returned"
           => pc' = "center"
        /\ pc = "center" =>
             /\ pc' = "scale"
             /\ (~cfg.normalization.center \/ Len(result.landmarks) < 25)
                  => result' = result
             /\ (cfg.normalization.center /\ Len(result.landmarks) >= 25)
                  => HipsAtOrigin(result')
        /\ pc = "scale" =>
             /\ pc' = "rotation"
             /\ (~cfg.normalization.scale \/ Len(result.landmarks) < 13)
                  => result' = result
             /\ (/\ cfg.normalization.scale
                 /\ Len(result.landmarks) >= 13
                 /\ At(result.landmarks, 11) # At(result.landmarks, 12))
                  => ShouldersOneApart(result')
        /\ pc = "rotation" =>
             /\ pc' = "normalizeFrame"
             /\ (~cfg.normalization.rotation \/ Len(result.landmarks) < 13)
                  => result' = result
             /\ (cfg.normalization.rotation /\ Len(result.landmarks) >= 13)
                  => ShouldersLevel(result')
             /\ result' = normalizeFrame(cfg, referenceVideo.frames[1])]_vars

\* With center and scale enabled, a frame that has the shoulders but not
\* the hips passed the center transform unchanged and was scaled.
C15_Witness ==
  /\ pc = "rotation"
  /\ comparator.config.normalization.center
  /\ comparator.config.normalization.scale
  /\ Len(referenceVideo.frames[1].landmarks) \in 13..24
  /\ result # referenceVideo.frames[1]
  /\ ShouldersOneApart(result)


\* C16: scaleNormalize returns the frame as it is when it has fewer than 13
\* landmarks or its landmarks 11 and 12 coincide; otherwise landmarks 11 and
\* 12 of the returned frame are at distance 1 (to the resolution of the
\* numbers). scaleLandmarks with factor 0 returns the list it was given.
C16_ScaleNormalize ==
  /\ pc = "scaleNormalize" =>
       LET frame == referenceVideo.frames[1]
       IN IF \/ Len(frame.landmarks) < 13
             \/ /\ At(frame.landmarks, 11).x = At(frame.landmarks, 12).x
                /\ At(frame.landmarks, 11).y = At(frame.landmarks, 12).y
                /\ At(frame.landmarks, 11).z = At(frame.landmarks, 12).z
          THEN result = frame
          ELSE ShouldersOneApart(result)
  /\ (pc = "scaleLandmarks" /\ result.factor = 0) =>
       result.scaled = referenceVideo.frames[1].landmarks

\* scaleNormalize returned a frame other than the one given: its shoulders
\* were not at distance 1.
C16_Witness ==
  /\ pc = "scaleNormalize"
  /\ Len(referenceVideo.frames[1].landmarks) >= 13
  /\ ~ShouldersOneApart(referenceVideo.frames[1])
  /\ result # referenceVideo.frames[1]


\* The sum of (values[k] - mean)^2 over the first i values.
RECURSIVE SumOfSquares(_, _, _)
SumOfSquares(values, mean, i) ==
  IF i = 0 THEN 0
  ELSE (values[i] - mean) * (values[i] - mean)
         + SumOfSquares(values, mean, i - 1)

\* C17: calculateStatistics returns mean, min, max and variance 0 for an
\* empty list; for n values it returns their sum divided by n, the smallest
\* and the largest value, and the sum of the squared distances from the
\* mean divided by n (each to the resolution of the numbers), so that
\* min <= mean <= max and variance >= 0, and the variance of one value is 0.
C17_Statistics ==
  pc = "calculateStatistics" =>
    LET values == result.values
        stats == result.stats
        n == Len(values)
    IN IF n = 0
       THEN stats = [mean |-> 0, min |-> 0, max |-> 0, variance |-> 0]
       ELSE /\ Abs(stats.mean * n - SumSeq(values, n)) < n
            /\ \E i \in 1..n : stats.min = values[i]
            /\ \A i \in 1..n : stats.min <= values[i]
            /\ \E i \in 1..n : stats.max = values[i]
            /\ \A i \in 1..n : stats.max >= values[i]
            /\ Abs(stats.variance * n * Unit
                     - SumOfSquares(values, stats.mean, n)) < 2 * n * Unit
            /\ stats.min <= stats.mean
            /\ stats.mean <= stats.max
            /\ stats.variance >= 0
            /\ n = 1 => stats.variance = 0

\* The statistics of three different values that include one below 0.
C17_Witness ==
  /\ pc = "calculateStatistics"
  /\ Len(result.values) = 3
  /\ result.stats.min < 0
  /\ result.stats.min < result.stats.mean
  /\ result.stats.mean < result.stats.max
  /\ result.stats.variance > 0


\* The joint's vertex landmark coincides with one of its two end landmarks.
Degenerate(landmarks, joint) ==
  LET Same(p, q) == p.x = q.x /\ p.y = q.y /\ p.z = q.z
  IN \/ Same(At(landmarks, joint[1]), At(landmarks, joint[2]))
     \/ Same(At(landmarks, joint[3]), At(landmarks, joint[2]))

\* The joint is included in the angular score of the two frames: its three
\* landmarks are visible in both.
Included(cfg, reference, comparison, joint) ==
  /\ JointVisible(cfg, reference.landmarks, joint)
  /\ JointVisible(cfg, comparison.landmarks, joint)

\* The angle differences of the included joints from joint j on that are
\* degenerate in neither frame: <<their sum, their number>>.
RECURSIVE SoundJointsLoop(_, _, _, _)
SoundJointsLoop(cfg, reference, comparison, j) ==
  IF j > Len(Joints) THEN <<0, 0>>
  ELSE LET Rest(totals) ==
             IF /\ Included(cfg, reference, comparison, Joints[j])
                /\ ~Degenerate(reference.landmarks, Joints[j])
                /\ ~Degenerate(comparison.landmarks, Joints[j])
             THEN <<totals[1]
                      + Abs(JointAngle(reference.landmarks, Joints[j])
                              - JointAngle(comparison.landmarks, Joints[j])),
                    totals[2] + 1>>
             ELSE totals
       IN Rest(SoundJointsLoop(cfg, reference, comparison, j + 1))

\* The angular score over the included joints that are not degenerate:
\* 100 * (1 - average difference / 180), and 0 when there is none.
SoundJointsScore(cfg, reference, comparison) ==
  LET Score(totals) ==
        IF totals[2] = 0 THEN 0
        ELSE Max(0, Min(100 * Unit,
                        QDiv(100 * (Fine - QDiv(QDiv(totals[1], totals[2])
                                                  * Unit, 180)), Unit)))
  IN Score(SoundJointsLoop(cfg, reference, comparison, 1))

\* Two frames of 33 landmarks or more were compared, and an included joint
\* is degenerate in one of them as compareFrames receives them.
DegenerateJointCompared ==
  /\ pc = "returned"
  /\ Len(result.frameScores) = 1
  /\ Len(referenceVideo.frames[1].landmarks) >= PoseLandmarks
  /\ Len(comparisonVideo.frames[1].landmarks) >= PoseLandmarks
  /\ LET Among(reference, comparison) ==
           \E j \in DOMAIN Joints :
             /\ Included(comparator.config, reference, comparison, Joints[j])
             /\ \/ Degenerate(reference.landmarks, Joints[j])
                \/ Degenerate(comparison.landmarks, Joints[j])
     IN Among(normalizeFrame(comparator.config, referenceVideo.frames[1]),
              normalizeFrame(comparator.config, comparisonVideo.frames[1]))

\* C18: when an included joint is degenerate (its vertex landmark coincides
\* with one of its end landmarks) in the reference or in the comparison
\* frame, the angular score of the pair is the score over the other
\* included joints alone.
C18_DegenerateJointNeutral ==
  DegenerateJointCompared =>
    LET Neutral(reference, comparison) ==
          calculateAngularScore(comparator.config, reference, comparison)
            = SoundJointsScore(comparator.config, reference, comparison)
    IN Neutral(normalizeFrame(comparator.config, referenceVideo.frames[1]),
               normalizeFrame(comparator.config, comparisonVideo.frames[1]))


----------------------------------------------------------------------------
(* utils/pose.normalization.ts: the decoder of the payloads the sockets    *)
(* send. A JSON value is a record holding its type and, by the type, its   *)
(* number, its string, its items or its fields.                            *)

Num(value) == [type |-> "number", number |-> value]
Str(value) == [type |-> "string", string |-> value]
Arr(items) == [type |-> "array", items |-> items]
Obj(fields) == [type |-> "object", fields |-> fields]
JsonNull == [type |-> "null"]
JsonUndefined == [type |-> "undefined"]

\* null, as the decoder, getVideoById and compareVideos return it.
Null == [null |-> TRUE]

\* payload && typeof payload === 'object': objects and arrays.
IsObject(value) == value.type \in {"object", "array"}

\* (payload as any).name: undefined when the value has no such field.
Field(value, name) ==
  IF value.type = "object" /\ name \in DOMAIN value.fields
  THEN value.fields[name]
  ELSE JsonUndefined

\* isLandmark taking every object as a landmark.
isLandmarkAnyObject(value) == value.type = "object"

isLandmark(value) ==
  /\ value.type = "object"
  /\ Field(value, "x").type = "number"
  /\ Field(value, "y").type = "number"

\* value.some(isLandmark)
SomeLandmark(items) == \E i \in DOMAIN items : isLandmark(items[i])

\* pickLandmarkList, and its loop from the last item i down to the first.
RECURSIVE pickLandmarkList(_)
RECURSIVE PickLoop(_, _)
pickLandmarkList(value) ==
  IF value.type # "array" THEN Null
  ELSE IF Len(value.items) = 0 THEN Null
  ELSE IF SomeLandmark(value.items) THEN value
  ELSE PickLoop(value.items, Len(value.items))

PickLoop(items, i) ==
  IF i < 1 THEN Null
  ELSE LET Inner(inner) ==
             IF inner # Null /\ SomeLandmark(inner.items) THEN inner
             ELSE PickLoop(items, i - 1)
       IN Inner(pickLandmarkList(items[i]))

\* a ?? b
Coalesce(a, b) == IF a.type \in {"null", "undefined"} THEN b ELSE a

\* The decoder normalizeFrame(payload), now being what Date.now() reads.
normalizeFramePayload(payload, now) ==
  LET timestamp ==
        IF IsObject(payload) /\ Field(payload, "timestamp").type = "number"
        THEN Field(payload, "timestamp").number
        ELSE now
      rawType ==
        IF IsObject(payload) /\ Field(payload, "type").type = "string"
        THEN Field(payload, "type")
        ELSE JsonUndefined
      landmarksCandidate ==
        IF payload.type = "array" THEN payload
        ELSE IF IsObject(payload)
        THEN Coalesce(Field(payload, "landmarks"),
               Coalesce(Field(payload, "poseLandmarks"),
                 Coalesce(Field(payload, "points"), Field(payload, "data"))))
        ELSE JsonNull
      Build(picked) ==
        IF picked = Null THEN Null
        ELSE LET landmarks == SelectSeq(picked.items, isLandmark)
             IN IF Len(landmarks) = 0 THEN Null
                ELSE [timestamp |-> timestamp, landmarks |-> landmarks,
                      rawType |-> rawType]
  IN Build(pickLandmarkList(landmarksCandidate))

----------------------------------------------------------------------------
(* pose.service.ts and the gateway that calls it: a socket connects        *)
(* (startVideo), sends frames (upsertLatest) and disconnects                *)
(* (removeClient); the controller asks for comparisons of stored videos.    *)
(* A database call takes effect, and the code after its await runs, in a    *)
(* step of its own.                                                         *)

\* Map.set and Map.delete; Map.has is membership in DOMAIN.
MapSet(map, key, value) ==
  [k \in DOMAIN map \cup {key} |-> IF k = key THEN value ELSE map[k]]

MapDelete(map, key) == [k \in DOMAIN map \ {key} |-> map[k]]

\* Two sockets connect; handleConnection draws a clientId (randomUUID) for
\* each: 1 for the first, 2 for the second.
ClientIds == {1, 2}

\* The most frames the sockets send altogether.
MaxMessages == 2

\* The most comparisons the controller asks for.
MaxCalls == 2

\* A frame as a client sends it in two dimensions: no landmark has a z.
Flat(frame) ==
  [timestamp |-> frame.timestamp,
   landmarks |-> [i \in DOMAIN frame.landmarks |->
                    [x |-> frame.landmarks[i].x, y |-> frame.landmarks[i].y,
                     visibility |-> frame.landmarks[i].visibility]]]

\* The payload a client makes of a frame: { timestamp, landmarks: [{ x, y,
\* z, visibility }, ...] }, without the visibility where the frame has none.
PayloadOf(frame) ==
  LET Names(lm) ==
        IF "visibility" \in DOMAIN lm /\ lm.visibility = Undefined
        THEN DOMAIN lm \ {"visibility"}
        ELSE DOMAIN lm
  IN Obj([timestamp |-> Num(frame.timestamp),
          landmarks |->
            Arr([i \in DOMAIN frame.landmarks |->
                   Obj([name \in Names(frame.landmarks[i]) |->
                          Num(frame.landmarks[i][name])])])])

\* What the sockets send: the text of a frame of 33 landmarks in a Buffer,
\* the text of a frame in two dimensions, a payload without landmarks,
\* text that is no JSON, and an empty message.
Datas ==
  { [type |-> "Buffer", text |-> "standard frame"],
    [type |-> "string", text |-> "flat frame"],
    [type |-> "string", text |-> "{\"data\":[[]]}"],
    [type |-> "string", text |-> "{"],
    [type |-> "string", text |-> ""] }

\* rawDataToString: the text of a string, a Buffer, an array of Buffers or
\* an ArrayBuffer, and null for anything else.
rawDataToString(data) ==
  IF data.type \in {"string", "Buffer", "Buffer[]", "ArrayBuffer"}
  THEN Str(data.text)
  ELSE Null

\* JSON.parse throws.
SyntaxError == [error |-> "SyntaxError"]

\* JSON.parse on the texts the sockets send.
JsonParse(text) ==
  CASE text = "standard frame" -> PayloadOf(createStandardFrame(0))
    [] text = "flat frame" -> PayloadOf(Flat(DifferentPoseFrame))
    [] text = "{\"data\":[[]]}" -> Obj([data |-> Arr(<<Arr(<< >>)>>)])
    [] OTHER -> SyntaxError

\* The replies of the gateway.
Welcome(clientId) == [type |-> "welcome", clientId |-> clientId]

Ack(clientId, receivedAt, landmarkCount) ==
  [type |-> "ack", clientId |-> clientId, receivedAt |-> receivedAt,
   landmarkCount |-> landmarkCount]

ErrorMessage(message) == [type |-> "error", message |-> message]

\* onMessage taking a payload in which the decoder finds no landmarks for a
\* frame without landmarks.
DecodeMessageEmptyFrame(data, now) ==
  LET Parsed(payload) ==
        IF payload = SyntaxError THEN ErrorMessage("Invalid JSON")
        ELSE LET Decoded(frame) ==
                   IF frame = Null
                   THEN [timestamp |-> now, landmarks |-> << >>]
                   ELSE frame
             IN Decoded(normalizeFramePayload(payload, now))
      Read(text) ==
        IF text = Null
        THEN ErrorMessage("Unsupported message type (expected text/buffer)")
        ELSE IF text.string = ""
        THEN ErrorMessage("Unsupported message type (expected text/buffer)")
        ELSE Parsed(JsonParse(text.string))
  IN Read(rawDataToString(data))


\* onMessage up to the call of upsertLatest: the frame, or the error the
\* gateway answers with.
DecodeMessage(data, now) ==
  LET Parsed(payload) ==
        IF payload = SyntaxError THEN ErrorMessage("Invalid JSON")
        ELSE LET Decoded(frame) ==
                   IF frame = Null
                   THEN ErrorMessage("Invalid payload; expected an array of landmarks or an object with landmarks/poseLandmarks/points/data")
                   ELSE frame
             IN Decoded(normalizeFramePayload(payload, now))
      Read(text) ==
        IF text = Null
        THEN ErrorMessage("Unsupported message type (expected text/buffer)")
        ELSE IF text.string = ""
        THEN ErrorMessage("Unsupported message type (expected text/buffer)")
        ELSE Parsed(JsonParse(text.string))
  IN Read(rawDataToString(data))

\* The frames the decoder makes of what the sockets send.
PoseFrames ==
  {DecodeMessage(data, 0) :
     data \in {d \in Datas : d.text \in {"standard frame", "flat frame"}}}

\* The requests the controller passes on: the two video ids and the
\* configuration of the body, << >> where it has none (config undefined).
\* No video has the id 3.
Requests ==
  { <<1, 2, << >> >>,
    <<2, 1, <<[positionWeight |-> Unit, angularWeight |-> 0]>> >>,
    <<1, 3, << >> >> }

\* lm.x ?? 0, for the numbers and the missing fields of stored landmarks.
OrZero(lm, field) ==
  IF Field(lm, field).type \in {"null", "undefined"} THEN 0
  ELSE Field(lm, field).number

\* lm.visibility
VisibilityOf(lm) ==
  IF Field(lm, "visibility").type = "number"
  THEN Field(lm, "visibility").number
  ELSE Undefined

\* getVideoById: null when there is no such video, else its frames in the
\* order of their creation, those without landmarks left out.
getVideoById(db, videoId) ==
  IF videoId \notin DOMAIN db.video THEN Null
  ELSE LET OfVideo(row) ==
             row.videoId = videoId /\ "landmarks" \in DOMAIN row.data
           rows == SelectSeq(db.frame, OfVideo)
       IN Video([i \in 1..Len(rows) |->
                   Frame([j \in DOMAIN rows[i].data.landmarks |->
                            Landmark(OrZero(rows[i].data.landmarks[j], "x"),
                                     OrZero(rows[i].data.landmarks[j], "y"),
                                     OrZero(rows[i].data.landmarks[j], "z"),
                                     VisibilityOf(rows[i].data.landmarks[j]))],
                         rows[i].data.timestamp)])

\* config ? new PoseComparator(config) : this.comparator, taken without
\* the test: the comparator of the service whatever the request says.
ComparatorOfService(shared, config) == shared.config

\* config ? new PoseComparator(config) : this.comparator
ComparatorOf(shared, config) ==
  IF config # << >> THEN Constructor(config[1]) ELSE shared.config

\* The service as the module constructs it: this.comparator = new
\* PoseComparator().
ServiceSpecInit ==
  /\ frameSource = Datas
  /\ comparator = [partial |-> << >>, config |-> Constructor(<< >>)]
  /\ referenceVideo = Video(<< >>)
  /\ comparisonVideo = Video(<< >>)
  /\ result = << >>
  /\ pc = "service"
  /\ ServiceInit

callerVars ==
  <<frameSource, comparator, referenceVideo, comparisonVideo, result, pc>>

\* handleConnection: the socket gets its clientId, the next one not yet
\* drawn, and is sent the welcome; startVideo runs up to its await:
\* prisma.video.create({ data: { startTime: new Date() } }).
StartVideo(clientId) ==
  /\ clientId = Cardinality(DOMAIN sockets) + 1
  /\ sockets' = MapSet(sockets, clientId,
                        [state |-> "open", sent |-> <<Welcome(clientId)>>])
  /\ tasks' = tasks \cup {[op |-> "video.create", clientId |-> clientId]}
  /\ UNCHANGED <<latestByClientId, lastSeenAtByClientId, videoIdByClientId,
                 prisma, calls, clock, callerVars>>

\* The video is created, and startVideo goes on after its await:
\* this.videoIdByClientId.set(clientId, video.id)
VideoCreated(task) ==
  /\ task.op = "video.create"
  /\ LET id == Len(prisma.video) + 1
     IN /\ prisma' = [prisma EXCEPT
                        !.video = Append(@, [startTime |-> TRUE])]
        /\ videoIdByClientId' = MapSet(videoIdByClientId, task.clientId, id)
  /\ tasks' = tasks \ {task}
  /\ UNCHANGED <<latestByClientId, lastSeenAtByClientId, calls, clock,
                 sockets, callerVars>>

\* A database call is rejected: its catch logs the error.
Rejected(task) ==
  /\ tasks' = tasks \ {task}
  /\ UNCHANGED <<latestByClientId, lastSeenAtByClientId, videoIdByClientId,
                 prisma, calls, clock, sockets, callerVars>>

\* onMessage: the data is decoded; for a frame upsertLatest sets the two
\* maps and, when the client has a video, calls prisma.frame.create
\* without awaiting it, and the gateway answers with an ack; otherwise the
\* gateway answers with the error.
OnMessage(clientId, data) ==
  /\ clientId \in DOMAIN sockets
  /\ sockets[clientId].state = "open"
  /\ clock < MaxMessages
  /\ clock' = clock + 1
  /\ LET Handle(frame) ==
           IF "message" \in DOMAIN frame
           THEN /\ sockets' = [sockets EXCEPT
                                 ![clientId].sent = Append(@, frame)]
                /\ UNCHANGED <<latestByClientId, lastSeenAtByClientId,
                               tasks>>
           ELSE /\ latestByClientId' =
                     MapSet(latestByClientId, clientId, frame)
                /\ lastSeenAtByClientId' =
                     MapSet(lastSeenAtByClientId, clientId, clock')
                /\ tasks' =
                     IF clientId \in DOMAIN videoIdByClientId
                     THEN tasks \cup
                            {[op |-> "frame.create", at |-> clock',
                              videoId |-> videoIdByClientId[clientId],
                              data |-> frame]}
                     ELSE tasks
                /\ sockets' = [sockets EXCEPT
                                 ![clientId].sent =
                                    Append(@, Ack(clientId, clock',
                                                  Len(frame.landmarks)))]
     IN Handle(DecodeMessage(data, clock'))
  /\ UNCHANGED <<videoIdByClientId, prisma, calls, callerVars>>

\* The frame is created.
FrameCreated(task) ==
  /\ task.op = "frame.create"
  /\ prisma' = [prisma EXCEPT
                  !.frame = Append(@, [videoId |-> task.videoId,
                                       data |-> task.data])]
  /\ tasks' = tasks \ {task}
  /\ UNCHANGED <<latestByClientId, lastSeenAtByClientId, videoIdByClientId,
                 calls, clock, sockets, callerVars>>

\* handleDisconnect: removeClient deletes the client's entries and, when
\* the client has a video, runs up to its await: prisma.video.update({
\* where: { id: videoId }, data: { endTime: new Date() } }).
RemoveClient(clientId) ==
  /\ clientId \in DOMAIN sockets
  /\ sockets[clientId].state = "open"
  /\ sockets' = [sockets EXCEPT ![clientId].state = "closed"]
  /\ latestByClientId' = MapDelete(latestByClientId, clientId)
  /\ lastSeenAtByClientId' = MapDelete(lastSeenAtByClientId, clientId)
  /\ videoIdByClientId' = MapDelete(videoIdByClientId, clientId)
  /\ tasks' =
       IF clientId \in DOMAIN videoIdByClientId
       THEN tasks \cup {[op |-> "video.update", clientId |-> clientId,
                         videoId |-> videoIdByClientId[clientId]]}
       ELSE tasks
  /\ UNCHANGED <<prisma, calls, clock, callerVars>>

\* The video is updated.
VideoUpdated(task) ==
  /\ task.op = "video.update"
  /\ prisma' = [prisma EXCEPT
                  !.video[task.videoId] =
                     [startTime |-> @.startTime, endTime |-> TRUE]]
  /\ tasks' = tasks \ {task}
  /\ UNCHANGED <<latestByClientId, lastSeenAtByClientId, videoIdByClientId,
                 calls, clock, sockets, callerVars>>

\* The controller calls PoseService.compareVideos(referenceVideoId,
\* comparisonVideoId, config), which awaits getVideoById(referenceVideoId).
CompareVideosCall(referenceVideoId, comparisonVideoId, config) ==
  /\ Len(calls) < MaxCalls
  /\ calls' = Append(calls, [referenceVideoId |-> referenceVideoId,
                             comparisonVideoId |-> comparisonVideoId,
                             config |-> config, pc |-> "reference"])
  /\ UNCHANGED <<latestByClientId, lastSeenAtByClientId, videoIdByClientId,
                 prisma, tasks, clock, sockets, callerVars>>

\* const referenceVideo = await this.getVideoById(referenceVideoId)
GetReferenceVideo(c) ==
  /\ calls[c].pc = "reference"
  /\ calls' = [calls EXCEPT ![c] =
       [referenceVideoId |-> @.referenceVideoId,
        comparisonVideoId |-> @.comparisonVideoId, config |-> @.config,
        pc |-> "comparison",
        referenceVideo |-> getVideoById(prisma, @.referenceVideoId)]]
  /\ UNCHANGED <<latestByClientId, lastSeenAtByClientId, videoIdByClientId,
                 prisma, tasks, clock, sockets, callerVars>>

\* const comparisonVideo = await this.getVideoById(comparisonVideoId)
GetComparisonVideo(c) ==
  /\ calls[c].pc = "comparison"
  /\ calls' = [calls EXCEPT ![c] =
       [referenceVideoId |-> @.referenceVideoId,
        comparisonVideoId |-> @.comparisonVideoId, config |-> @.config,
        pc |-> "compare", referenceVideo |-> @.referenceVideo,
        comparisonVideo |-> getVideoById(prisma, @.comparisonVideoId)]]
  /\ UNCHANGED <<latestByClientId, lastSeenAtByClientId, videoIdByClientId,
                 prisma, tasks, clock, sockets, callerVars>>

\* What compareVideos returns for the two videos it has read: null when
\* one is missing or the comparator throws, else the comparator's result.
CompareResult(shared, call) ==
  IF call.referenceVideo = Null \/ call.comparisonVideo = Null THEN Null
  ELSE LET Returned(cfg) ==
             IF compareVideosThrows(cfg, call.referenceVideo,
                                    call.comparisonVideo)
             THEN Null
             ELSE compareVideos(cfg, call.referenceVideo,
                                call.comparisonVideo)
       IN Returned(ComparatorOf(shared, call.config))

\* The rest of compareVideos, after its second await: the test for null,
\* the choice of the comparator, comparator.compareVideos, return.
CompareStoredVideos(c) ==
  /\ calls[c].pc = "compare"
  /\ calls' = [calls EXCEPT ![c] =
       [referenceVideoId |-> @.referenceVideoId,
        comparisonVideoId |-> @.comparisonVideoId, config |-> @.config,
        pc |-> "returned", referenceVideo |-> @.referenceVideo,
        comparisonVideo |-> @.comparisonVideo,
        result |-> CompareResult(comparator, @)]]
  /\ UNCHANGED <<latestByClientId, lastSeenAtByClientId, videoIdByClientId,
                 prisma, tasks, clock, sockets, callerVars>>

ServiceNext ==
  \/ \E clientId \in ClientIds : StartVideo(clientId)
  \/ \E task \in tasks : VideoCreated(task)
  \/ \E task \in tasks : Rejected(task)
  \/ \E clientId \in ClientIds, data \in frameSource :
       OnMessage(clientId, data)
  \/ \E task \in tasks : FrameCreated(task)
  \/ \E clientId \in ClientIds : RemoveClient(clientId)
  \/ \E task \in tasks : VideoUpdated(task)

ServiceSpec == ServiceSpecInit /\ [][ServiceNext]_vars

\* The controller's comparisons, made while two sockets are connected: the
\* first has sent a frame, which is stored, and the second another frame,
\* which is still being stored.
ControllerInit ==
  /\ frameSource = Datas
  /\ comparator = [partial |-> << >>, config |-> Constructor(<< >>)]
  /\ referenceVideo = Video(<< >>)
  /\ comparisonVideo = Video(<< >>)
  /\ result = << >>
  /\ pc = "service"
  /\ videoIdByClientId = [clientId \in 1..2 |-> clientId]
  /\ clock = 2
  /\ lastSeenAtByClientId = [clientId \in 1..2 |-> clientId]
  /\ calls = << >>
  /\ \E first \in PoseFrames : \E second \in PoseFrames \ {first} :
       /\ latestByClientId = <<first, second>>
       /\ sockets = [clientId \in 1..2 |->
                       [state |-> "open",
                        sent |-> <<Welcome(clientId),
                                   Ack(clientId, clientId,
                                       Len(latestByClientId[clientId]
                                             .landmarks))>>]]
       /\ prisma = [video |-> <<[startTime |-> TRUE], [startTime |-> TRUE]>>,
                    frame |-> <<[videoId |-> 1, data |-> first]>>]
       /\ tasks = {[op |-> "frame.create", at |-> 2, videoId |-> 2,
                    data |-> second]}

ControllerNext ==
  \/ \E request \in Requests :
       CompareVideosCall(request[1], request[2], request[3])
  \/ \E c \in DOMAIN calls : GetReferenceVideo(c)
  \/ \E c \in DOMAIN calls : GetComparisonVideo(c)
  \/ \E c \in DOMAIN calls : CompareStoredVideos(c)
  \/ \E task \in tasks : FrameCreated(task)

ControllerSpec == ControllerInit /\ [][ControllerNext]_vars


----------------------------------------------------------------------------
(* Properties of the comparisons the service makes.                         *)

\* What the call returns when it is the only one made, on a service that
\* has just been constructed: null when a video it read is missing or the
\* comparison throws, else the result of a new comparator, constructed
\* with the call's configuration, for the two videos the call read.
ResultAlone(call) ==
  IF call.referenceVideo = Null \/ call.comparisonVideo = Null THEN Null
  ELSE LET Returned(cfg) ==
             IF compareVideosThrows(cfg, call.referenceVideo,
                                    call.comparisonVideo)
             THEN Null
             ELSE compareVideos(cfg, call.referenceVideo,
                                call.comparisonVideo)
       IN Returned(Constructor(IF call.config = << >> THEN << >>
                               ELSE call.config[1]))

----------------------------------------------------------------------------
(* Properties of the sessions of the service.                               *)

\* prisma.frame.count({ where: { videoId } })
FrameCount(db, videoId) ==
  Cardinality({i \in DOMAIN db.frame : db.frame[i].videoId = videoId})

\* The database holds the video.
Stored(db, videoId) == videoId \in DOMAIN db.video

\* The database holds the video with an endTime.
Ended(db, videoId) ==
  Stored(db, videoId) /\ "endTime" \in DOMAIN db.video[videoId]

\* C20: when the database call of removeClient for a client's video takes
\* effect, a video with no stored frame is deleted and not given an
\* endTime, and a video with stored frames is given an endTime and kept.
C20_RemoveClientCountsFrames ==
  [][\A task \in tasks \ tasks' :
       (task.op = "video.update" /\ prisma' # prisma) =>
         IF FrameCount(prisma, task.videoId) = 0
         THEN ~Stored(prisma', task.videoId)
         ELSE Ended(prisma', task.videoId)]_vars


----------------------------------------------------------------------------
(* The decoder on the payloads of its tests and on lists built from their   *)
(* items.                                                                   *)

\* The most items a list of a payload holds.
MaxItems == 2

\* { x: 1, y: 2 }, the landmark of the tests; an object without y; an
\* object whose x is a string.
Point == Obj([x |-> Num(1), y |-> Num(2)])
NoY == Obj([x |-> Num(1)])
TextX == Obj([x |-> Str("1"), y |-> Num(2)])

\* The sequences of at most MaxItems items out of a set.
SeqsUpTo(items) == UNION {[1..n -> items] : n \in 0..MaxItems}

\* Lists of landmarks, of other objects and of numbers.
FlatLists == {Arr(items) : items \in SeqsUpTo({Point, NoY, TextX, Num(7)})}

\* Lists that hold lists, as data: [[...]] does.
NestedLists ==
  {Arr(items) :
     items \in SeqsUpTo({Point, NoY, Arr(<< >>), Arr(<<Point>>),
                         Arr(<<NoY>>), Arr(<<NoY, Point>>)})}

\* Lists that hold lists of lists.
DeepLists ==
  {Arr(items) :
     items \in SeqsUpTo({NoY, Arr(<<Arr(<< >>)>>), Arr(<<Arr(<<Point>>)>>),
                         Arr(<<Arr(<<NoY>>)>>)})}

Lists == FlatLists \cup NestedLists \cup DeepLists

\* The names under which a payload object holds its landmarks.
ListNames == {"landmarks", "poseLandmarks", "points", "data"}

\* The payloads: a list; an object holding a list under one of the four
\* names; with a timestamp and a type; with a timestamp that is no number;
\* with a second list under landmarks that holds no landmark; and values
\* that are neither.
Payloads ==
  Lists
    \cup {Obj([name \in {key} |-> list]) : key \in ListNames, list \in Lists}
    \cup {Obj([type |-> Str("pose-landmarks"), timestamp |-> Num(1),
               data |-> list]) : list \in Lists}
    \cup {Obj([timestamp |-> Str("1"), landmarks |-> list]) : list \in Lists}
    \cup {Obj([landmarks |-> first, points |-> list]) :
            first \in {JsonNull, Arr(<< >>), Arr(<<NoY>>)}, list \in Lists}
    \cup {Num(5), Str("frame"), JsonNull, Point, Obj([landmarks |-> Point]),
          Obj([timestamp |-> Num(1)])}

\* What Date.now() reads in the tests.
MockedNow == 123

DecoderInit ==
  /\ frameSource = Payloads
  /\ comparator = [partial |-> << >>, config |-> Constructor(<< >>)]
  /\ referenceVideo = Video(<< >>)
  /\ comparisonVideo = Video(<< >>)
  /\ result = << >>
  /\ pc = "payload"
  /\ ServiceInit

\* normalizeFrame(payload)
DecodePayload(payload) ==
  /\ pc = "payload"
  /\ result' = [payload |-> payload,
                frame |-> normalizeFramePayload(payload, MockedNow)]
  /\ pc' = "decoded"
  /\ UNCHANGED <<frameSource, comparator, referenceVideo, comparisonVideo,
                 serviceVars>>

\* The test ends.
NextPayload ==
  /\ pc = "decoded"
  /\ result' = << >>
  /\ pc' = "payload"
  /\ UNCHANGED <<frameSource, comparator, referenceVideo, comparisonVideo,
                 serviceVars>>

DecoderNext ==
  \/ \E payload \in frameSource : DecodePayload(payload)
  \/ NextPayload

DecoderSpec == DecoderInit /\ [][DecoderNext]_vars

----------------------------------------------------------------------------
(* Properties of the decoder.                                               *)

\* The value is an object whose x and y are numbers.
NumericXY(value) ==
  /\ value.type = "object"
  /\ "x" \in DOMAIN value.fields
  /\ value.fields.x.type = "number"
  /\ "y" \in DOMAIN value.fields
  /\ value.fields.y.type = "number"

\* The value is a list that holds such an object, itself or in a list it
\* holds.
RECURSIVE HoldsLandmark(_)
HoldsLandmark(value) ==
  /\ value.type = "array"
  /\ \E i \in DOMAIN value.items :
       NumericXY(value.items[i]) \/ HoldsLandmark(value.items[i])

\* The lists of a payload: the payload that is an array, or what an object
\* holds under the four names.
PayloadLists(payload) ==
  IF payload.type = "array" THEN {payload}
  ELSE IF payload.type = "object"
  THEN {payload.fields[name] : name \in DOMAIN payload.fields \cap ListNames}
  ELSE {}

\* C22: the decoder returns null for every payload none of whose lists
\* holds an object with numeric x and y, itself or in a nested list; a
\* frame it returns has at least one landmark, and every landmark of the
\* frame has numeric x and y.
C22_DecoderRejectsOrFilters ==
  pc = "decoded" =>
    /\ (\A list \in PayloadLists(result.payload) : ~HoldsLandmark(list))
         => result.frame = Null
    /\ result.frame # Null =>
         /\ Len(result.frame.landmarks) > 0
         /\ \A i \in DOMAIN result.frame.landmarks :
              NumericXY(result.frame.landmarks[i])

\* The decoder has found the landmark in a nested list and left out the
\* object without y next to it.
C22_Witness ==
  /\ pc = "decoded"
  /\ result.payload = Obj([data |-> Arr(<<Arr(<<NoY, Point>>)>>)])
  /\ result.frame # Null
  /\ result.frame.landmarks = <<Point>>

\* The decoder has returned null for a payload whose lists hold none.
C22_NullReached ==
  /\ pc = "decoded"
  /\ result.payload = Obj([data |-> Arr(<<Arr(<< >>)>>)])
  /\ result.frame = Null

----------------------------------------------------------------------------
(* Properties of the gateway and the service, of the steps of ServiceSpec.  *)

\* The gateway answers the socket with an ack in this step.
AckSent(clientId) ==
  /\ clientId \in DOMAIN sockets
  /\ Len(sockets'[clientId].sent) = Len(sockets[clientId].sent) + 1
  /\ sockets'[clientId].sent[Len(sockets'[clientId].sent)].type = "ack"

\* C21: when the gateway accepts a frame from a socket (answers with an
\* ack), the frame goes to the database linked to the video of that
\* socket: the step calls prisma.frame.create with the frame and the id of
\* the client's video.
C21_AcceptedFramesStored ==
  [][\A clientId \in ClientIds :
       AckSent(clientId) =>
         \E task \in tasks' \ tasks :
           /\ task.op = "frame.create"
           /\ task.data = latestByClientId'[clientId]
           /\ clientId \in DOMAIN videoIdByClientId
           /\ task.videoId = videoIdByClientId[clientId]]_vars

----------------------------------------------------------------------------
(* Properties of compareVideos that relate two calls: the call that has    *)
(* returned and the call on other arguments.                                *)

\* The most frames the caller of the specification below draws for the two
\* videos of one call: each frame score is set against the calls on every
\* neighbouring pair of videos, so the videos are kept shorter.
MaxDrawn == 3

DrawReference(frame) ==
  /\ Len(referenceVideo.frames) + Len(comparisonVideo.frames) < MaxDrawn
  /\ AppendReference(frame)

DrawComparison(frame) ==
  /\ Len(referenceVideo.frames) + Len(comparisonVideo.frames) < MaxDrawn
  /\ AppendComparison(frame)

NeighbourNext ==
  \/ \E frame \in frameSource : DrawReference(frame)
  \/ \E frame \in frameSource : DrawComparison(frame)
  \/ CompareVideos
  \/ NextCall

NeighbourSpec == Init /\ [][NeighbourNext]_vars

ReplaceAt(frames, j, frame) == [frames EXCEPT ![j] = frame]
RemoveAt(frames, j) == SubSeq(frames, 1, j - 1) \o SubSeq(frames, j + 1, Len(frames))
InsertAt(frames, j, frame) == SubSeq(frames, 1, j - 1) \o <<frame>> \o SubSeq(frames, j, Len(frames))

\* The videos that differ from video in one frame other than frame i
\* (1-based): one changed, one removed or one added behind frame i.
OtherVideos(video, i) ==
  {Video(ReplaceAt(video.frames, j, frame)) :
     j \in DOMAIN video.frames \ {i}, frame \in frameSource}
  \cup {Video(RemoveAt(video.frames, j)) : j \in (i + 1)..Len(video.frames)}
  \cup {Video(InsertAt(video.frames, j, frame)) :
          j \in (i + 1)..(Len(video.frames) + 1), frame \in frameSource}

\* The pairs of videos that keep frame pair i and differ from the compared
\* pair in one other frame of one video.
OtherPairs(i) ==
  {<<video, comparisonVideo>> : video \in OtherVideos(referenceVideo, i)}
  \cup {<<referenceVideo, video>> : video \in OtherVideos(comparisonVideo, i)}

----------------------------------------------------------------------------
(* Properties of the two frame metrics, of the single-frame calls of        *)
(* UnitSpec.                                                                *)

\* The joints all three landmarks of which count as visible in both frames,
\* in the order of the list of joints.
CountedJoints(threshold, reference, comparison) ==
  LET Counted(joint) ==
        \A k \in 1..3 :
          /\ CountsAsVisible(At(reference.landmarks, joint[k]), threshold)
          /\ CountsAsVisible(At(comparison.landmarks, joint[k]), threshold)
  IN SelectSeq(Joints, Counted)

\* The score of an average angle difference: 100 * (1 - avg / 180), clamped.
ScoreOfAngle(avgAngleDifference) ==
  Max(0, Min(100 * Unit,
             QDiv(100 * (Fine - QDiv(avgAngleDifference * Unit, 180)), Unit)))

\* C24: in the angular score of two frames of 33 landmarks, a joint is
\* counted if and only if all three of its landmarks pass the visibility
\* threshold (no visibility value, or one not below the threshold) in the
\* reference frame and in the comparison frame; the score is that of the
\* average angle difference over the counted joints only, and 0 when no
\* joint is counted.
C24_AngularCountsVisibleJoints ==
  (/\ pc = "returned"
   /\ Len(result.frameScores) = 1
   /\ Len(referenceVideo.frames[1].landmarks) >= PoseLandmarks
   /\ Len(comparisonVideo.frames[1].landmarks) >= PoseLandmarks) =>
    LET cfg == comparator.config
        reference == normalizeFrame(cfg, referenceVideo.frames[1])
        comparison == normalizeFrame(cfg, comparisonVideo.frames[1])
        counted == CountedJoints(cfg.visibilityThreshold,
                                 referenceVideo.frames[1],
                                 comparisonVideo.frames[1])
        differences ==
          [n \in 1..Len(counted) |->
             Abs(JointAngle(reference.landmarks, counted[n])
                   - JointAngle(comparison.landmarks, counted[n]))]
    IN result.breakdown.angularScore =
         IF Len(counted) = 0 THEN 0
         ELSE ScoreOfAngle(QDiv(SumSeq(differences, Len(counted)),
                                Len(counted)))

\* Two frames were compared in which some joints count and others do not,
\* and the counted joints differ in their angles.
C24_Witness ==
  /\ pc = "returned"
  /\ Len(result.frameScores) = 1
  /\ Len(referenceVideo.frames[1].landmarks) >= PoseLandmarks
  /\ Len(comparisonVideo.frames[1].landmarks) >= PoseLandmarks
  /\ Len(CountedJoints(comparator.config.visibilityThreshold,
                       referenceVideo.frames[1],
                       comparisonVideo.frames[1])) \in 1..5
  /\ result.breakdown.angularScore > 0
  /\ result.breakdown.angularScore < 100 * Unit

\* Two frames of 33 landmarks were compared in which no joint counts.
C24_NoneCounted ==
  /\ pc = "returned"
  /\ Len(result.frameScores) = 1
  /\ Len(referenceVideo.frames[1].landmarks) >= PoseLandmarks
  /\ Len(comparisonVideo.frames[1].landmarks) >= PoseLandmarks
  /\ Len(CountedJoints(comparator.config.visibilityThreshold,
                       referenceVideo.frames[1],
                       comparisonVideo.frames[1])) = 0
  /\ result.breakdown.angularScore = 0


\* The indices (0-based, in order) at which both frames hold a landmark that
\* counts as visible.
ComparedIndices(threshold, reference, comparison) ==
  LET Compared(i) ==
        /\ CountsAsVisible(At(reference.landmarks, i), threshold)
        /\ CountsAsVisible(At(comparison.landmarks, i), threshold)
  IN SelectSeq([n \in 1..Min(Len(reference.landmarks),
                             Len(comparison.landmarks)) |-> n - 1],
               Compared)

\* The position score of two frames under a table of weights holding every
\* index: the
\* decay of the weighted mean distance over the compared indices.
WeightedPositionScore(weights, threshold, reference, comparison) ==
  LET compared == ComparedIndices(threshold, reference, comparison)
      weight == [n \in 1..Len(compared) |-> weights[compared[n]]]
      distances ==
        [n \in 1..Len(compared) |->
           calculateDistance(At(reference.landmarks, compared[n]),
                             At(comparison.landmarks, compared[n]))
             * weight[n]]
      totalWeight == SumSeq(weight, Len(compared))
  IN IF totalWeight = 0 THEN 0
     ELSE Max(0, Min(100 * Unit,
                     QDiv(100 * Exp(-K * QDiv(SumSeq(distances,
                                                     Len(compared)),
                                              totalWeight)), Unit)))

\* The caller's weight of an index, 1.0 for an index its map leaves out.
SuppliedWeights ==
  [i \in 0..(PoseLandmarks - 1) |->
     IF i \in DOMAIN comparator.partial.landmarkWeights
     THEN comparator.partial.landmarkWeights[i] ELSE Unit]

\* The caller's weight of an index, the weight of the default table for an
\* index its map leaves out.
MergedWeights ==
  [i \in 0..(PoseLandmarks - 1) |->
     IF i \in DOMAIN comparator.partial.landmarkWeights
     THEN comparator.partial.landmarkWeights[i]
     ELSE IF i \in DOMAIN DefaultLandmarkWeights
     THEN DefaultLandmarkWeights[i] ELSE Unit]

\* A comparator constructed with a landmarkWeights map has compared two
\* frames.
WeightsSupplied ==
  /\ pc = "returned"
  /\ Len(result.frameScores) = 1
  /\ Has(comparator.partial, "landmarkWeights")

\* C25: when the caller supplies a landmarkWeights map, the position score
\* weights every landmark index absent from that map with 1.0, also where
\* the default table holds another weight: the supplied map replaces the
\* default table, it is not merged over it.
C25_SuppliedWeightsReplaceDefaults ==
  WeightsSupplied =>
    LET cfg == comparator.config
    IN result.breakdown.positionScore =
         WeightedPositionScore(SuppliedWeights, cfg.visibilityThreshold,
                               normalizeFrame(cfg, referenceVideo.frames[1]),
                               normalizeFrame(cfg, comparisonVideo.frames[1]))

\* The two frames differ at indices the supplied map leaves out, and the
\* default weights of those indices would have given another score.
C25_Witness ==
  /\ WeightsSupplied
  /\ result.breakdown.positionScore > 0
  /\ result.breakdown.positionScore < 100 * Unit
  /\ LET cfg == comparator.config
     IN result.breakdown.positionScore #
          WeightedPositionScore(MergedWeights, cfg.visibilityThreshold,
                                normalizeFrame(cfg, referenceVideo.frames[1]),
                                normalizeFrame(cfg,
                                               comparisonVideo.frames[1]))


\* The frame with landmark k (1-based) moved by offset along x and y.
MoveLandmark(frame, k, offset) ==
  [frame EXCEPT !.landmarks[k] = [@ EXCEPT !.x = @ + offset, !.y = @ + offset]]

\* The landmarks (1-based) of the frame that carry a visibility value below
\* the threshold.
BelowThreshold(frame, threshold) ==
  {k \in DOMAIN frame.landmarks : ~CountsAsVisible(frame.landmarks[k], threshold)}

\* The anchors of the normalizers (1-based): shoulders 11 and 12, hips 23
\* and 24.
Anchors == {12, 13, 24, 25}

\* The call under the default configuration returns the same result when
\* one of these landmarks of the comparison frame, below the threshold, is
\* moved.
UnmovedBy(landmarks) ==
  (/\ pc = "returned"
   /\ Len(result.frameScores) = 1
   /\ comparator.config = DEFAULT_COMPARATOR_CONFIG) =>
    \A k \in landmarks \cap BelowThreshold(comparisonVideo.frames[1],
                                          comparator.config.visibilityThreshold) :
      \A offset \in Offsets :
        compareVideos(comparator.config, referenceVideo,
                      Video(<<MoveLandmark(comparisonVideo.frames[1], k,
                                           offset)>>)) = result

\* C26: changing the coordinates of a landmark whose visibility is below the
\* threshold does not change the result of compareVideos, for every
\* landmark index, including the normalization anchors 11, 12, 23 and 24,
\* under the default configuration.
C26_InvisibleLandmarkIgnored == UnmovedBy(1..PoseLandmarks)

\* The same of the landmarks that are no anchor of the normalizers.
C26_OffAnchors == UnmovedBy((1..PoseLandmarks) \ Anchors)

\* A landmark below the threshold that is no anchor was moved in a frame
\* whose other landmarks are compared.
C26_OffAnchorsReached ==
  /\ pc = "returned"
  /\ Len(result.frameScores) = 1
  /\ comparator.config = DEFAULT_COMPARATOR_CONFIG
  /\ result.overallScore > 0
  /\ BelowThreshold(comparisonVideo.frames[1],
                    comparator.config.visibilityThreshold) \ Anchors # {}

----------------------------------------------------------------------------
(* Properties of compareVideos on videos of several frames, of the calls    *)
(* of Spec.                                                                 *)

\* C27: for every comparison with at least one compared frame pair,
\* overallScore = positionWeight * breakdown.positionScore
\*                + angularWeight * breakdown.angularScore
\* in exact arithmetic, every frame score being that weighted sum of the
\* pair's position and angular scores. The numbers here are cut to two
\* decimals after each division: a frame score and each of the three means
\* lose less than one hundredth, so the two sides, taken times Unit, differ
\* by less than 2 * Unit + positionWeight + angularWeight.
C27_OverallIsWeightedBreakdown ==
  (pc = "returned" /\ result # TypeError /\ Len(result.frameScores) >= 1) =>
    LET cfg == comparator.config
    IN Abs(result.overallScore * Unit
             - (cfg.positionWeight * result.breakdown.positionScore
                  + cfg.angularWeight * result.breakdown.angularScore))
         < 2 * Unit + cfg.positionWeight + cfg.angularWeight

\* Two frame pairs with different scores were compared, and the position
\* and angular scores of the comparison differ.
C27_Witness ==
  /\ pc = "returned"
  /\ result # TypeError
  /\ Len(result.frameScores) = 2
  /\ result.frameScores[1] # result.frameScores[2]
  /\ result.breakdown.positionScore > result.breakdown.angularScore + Unit
  /\ result.breakdown.angularScore > 0


\* C28: compareVideos is symmetric in its two arguments: compareVideos(A, B)
\* and compareVideos(B, A) return the same overallScore, frameScores and
\* breakdown, for every pair of videos and every configuration.
C28_Symmetric ==
  (pc = "returned" /\ result # TypeError) =>
    /\ ~compareVideosThrows(comparator.config, comparisonVideo,
                            referenceVideo)
    /\ compareVideos(comparator.config, comparisonVideo, referenceVideo)
         = result

\* Two videos of different lengths and different frames were compared, and
\* the pairs scored between 0 and 100.
C28_Witness ==
  /\ pc = "returned"
  /\ result # TypeError
  /\ Len(referenceVideo.frames) > Len(comparisonVideo.frames)
  /\ Len(comparisonVideo.frames) >= 1
  /\ referenceVideo.frames[1] # comparisonVideo.frames[1]
  /\ result.overallScore > 0
  /\ result.overallScore < 100 * Unit
  /\ result.breakdown.timingScore < 100 * Unit

----------------------------------------------------------------------------
(* Properties of the sessions of ServiceSpec.                               *)

\* The socket of the client has closed, and neither the startVideo nor the
\* removeClient call made for it is waiting for the database.
SessionOver(clientId) ==
  /\ clientId \in DOMAIN sockets
  /\ sockets[clientId].state = "closed"
  /\ ~\E task \in tasks :
        /\ task.op \in {"video.create", "video.update"}
        /\ task.clientId = clientId

\* C29: once a client has disconnected and its startVideo and removeClient
\* calls have both completed, videoIdByClientId, latestByClientId and
\* lastSeenAtByClientId hold no entry for that client, however the creation
\* of the video in startVideo interleaves with removeClient.
C29_NoEntryAfterDisconnect ==
  \A clientId \in ClientIds :
    SessionOver(clientId) =>
      /\ clientId \notin DOMAIN videoIdByClientId
      /\ clientId \notin DOMAIN latestByClientId
      /\ clientId \notin DOMAIN lastSeenAtByClientId

\* The same of the two maps that removeClient clears without a condition.
C29_FramesForgotten ==
  \A clientId \in ClientIds :
    SessionOver(clientId) =>
      /\ clientId \notin DOMAIN latestByClientId
      /\ clientId \notin DOMAIN lastSeenAtByClientId


\* The data cannot be decoded as text, is not valid JSON, or yields no
\* frame.
NoFrame(data, now) ==
  \/ rawDataToString(data) = Null
  \/ rawDataToString(data) = Str("")
  \/ JsonParse(rawDataToString(data).string) = SyntaxError
  \/ normalizeFramePayload(JsonParse(rawDataToString(data).string), now) = Null

\* The socket is sent one message in this step, and no other socket any.
OneReply(clientId) ==
  /\ DOMAIN sockets' = DOMAIN sockets
  /\ Len(sockets'[clientId].sent) = Len(sockets[clientId].sent) + 1
  /\ SubSeq(sockets'[clientId].sent, 1, Len(sockets[clientId].sent))
       = sockets[clientId].sent
  /\ \A other \in DOMAIN sockets \ {clientId} :
       sockets'[other] = sockets[other]

\* The message the socket was sent last.
LastSent(socket) == socket.sent[Len(socket.sent)]

\* C30: for every message received on a socket the gateway sends exactly
\* one reply: an error when the data cannot be decoded as text, is not valid
\* JSON or yields no frame, and then the latest frame and the last-seen time
\* of the client are unchanged and nothing is persisted; otherwise an ack
\* whose landmarkCount is the number of landmarks of the frame now stored as
\* the client's latest frame.
C30_OneReplyPerMessage ==
  [][\A clientId \in ClientIds : \A data \in Datas :
       (clock' # clock /\ OnMessage(clientId, data)) =>
         /\ OneReply(clientId)
         /\ IF NoFrame(data, clock')
            THEN /\ LastSent(sockets'[clientId]).type = "error"
                 /\ UNCHANGED <<latestByClientId, lastSeenAtByClientId,
                                tasks, prisma>>
            ELSE /\ LastSent(sockets'[clientId]).type = "ack"
                 /\ clientId \in DOMAIN latestByClientId'
                 /\ LastSent(sockets'[clientId]).landmarkCount =
                      Len(latestByClientId'[clientId].landmarks)]_vars

\* A socket has been answered with an ack for a frame of 33 landmarks, now
\* the latest frame of its client, and then with the error for text that
\* is no JSON.
C30_Witness ==
  \E clientId \in DOMAIN sockets :
    /\ Len(sockets[clientId].sent) = 3
    /\ sockets[clientId].sent[2].type = "ack"
    /\ sockets[clientId].sent[2].landmarkCount = PoseLandmarks
    /\ sockets[clientId].sent[3] = ErrorMessage("Invalid JSON")
    /\ clientId \in DOMAIN latestByClientId
    /\ Len(latestByClientId[clientId].landmarks) = PoseLandmarks
    /\ lastSeenAtByClientId[clientId] = 1

============================================================================
